---- MODULE Spec2Model ----
(***************************************************************************)
(* MachineDeFi: the snapshot-based revenue distribution ledger, with the   *)
(* MachineToken share token it deploys per machine; SecureVault, the ether *)
(* vault, and MultiRoleToken, the capped token with roles, which stand     *)
(* next to it.                                                             *)
(*                                                                         *)
(* Every public function of the contract is an operator that maps the      *)
(* contract storage and the call's inputs to the call's outcome: the error *)
(* it reverts with (or none), the storage it leaves, the ether it sends    *)
(* and the events it emits.  A reverted call leaves the storage as it was  *)
(* (EVM semantics), so the actions of the state machine are the successful *)
(* calls; what a failing call does is read off the operator.               *)
(*                                                                         *)
(* Amounts of ether are counted in units of 10^14 wei, so that 1 ether is  *)
(* 10000 and the default threshold of 0.01 ether is 100.  Amounts stay far *)
(* below 2^256: the checked arithmetic of Solidity 0.8 never panics here.  *)
(* Timestamps, block numbers and machine names are left out.               *)
(***************************************************************************)
EXTENDS Integers, Sequences, FiniteSets, TLC

\* ------------------------------------------------------------------ bounds
\* the revenue life cycle (Spec)
MaxMachines == 1
MaxSnapshots == 2
MaxBatch == 2
\* the registry (SpecRegistry)
MaxRegistered == 2
\* the operator's functions (SpecOperators)
MaxOperated == 1
MaxOperatedReports == 1
\* claims on small deposits (SpecDust)
MaxDustMachines == 1
MaxDustReports == 1
\* the share tokens (SpecShares)
MaxShareMachines == 1
MaxShareReports == 1
\* several machines side by side (SpecAssets)
MaxAssets == 2
MaxAssetReports == 2
\* the vault (SpecVault): the most one user's recorded deposit grows to
MaxVaultDeposit == 2
\* the capped token (SpecRoleToken): the largest supply and cap it is given
MaxTokenSupply == 2
\* deposits and their configuration (SpecDeposits)
MaxDepositMachines == 2
MaxReports == 2

\* ------------------------------------------------------- program constants
BpsDenominator == 10000
DefaultPlatformFeeBps == 250
MaxPlatformFeeBps == 1000
DefaultMinRevenueThreshold == 100

\* --------------------------------------------------------------- identities
Addresses == {"owner", "alice", "bob"}
ZeroAddress == "0x0"
Deployer == "owner"
Holders == {"alice", "bob"}
\* the address of the MachineDeFi contract itself: it deploys and owns the share tokens
Ledger == "ledger"

Max(S) == CHOOSE x \in S : \A y \in S : y <= x
MachineIds == 0..Max({MaxMachines, MaxRegistered, MaxDepositMachines, MaxOperated,
                        MaxDustMachines, MaxShareMachines, MaxAssets})
SnapshotIds == 0..Max({MaxSnapshots, MaxReports, MaxOperatedReports, MaxDustReports,
                         MaxShareReports, MaxAssetReports})

\* inputs the environment may pass
MsgValues == {0, 10, 150}
DustValues == {1, 150}
FeeInputs == {250, 1000, 1001}
ThresholdInputs == {0, 100}
ShareInputs == {0, 1, 2}
TransferAmounts == {1, 2}
\* ... and the amounts a transfer may be attempted with
TransferAttempts == 0..3
\* metadata URIs: the one every machine is registered with, and the ones
\* updateMachineMetadata is called with
RegisteredMetadataURI == "ipfs://registered"
MetadataInputs == {RegisteredMetadataURI, "ipfs://updated"}
OperatorInputs == Addresses \cup {ZeroAddress}
\* MultiRoleToken: its roles, the supplies and caps it is constructed and
\* reconfigured with, the amounts minted and burnt, the role lists granted
DEFAULT_ADMIN_ROLE == "DEFAULT_ADMIN_ROLE"
MINTER_ROLE == "MINTER_ROLE"
BURNER_ROLE == "BURNER_ROLE"
PAUSER_ROLE == "PAUSER_ROLE"
Roles == {DEFAULT_ADMIN_ROLE, MINTER_ROLE, BURNER_ROLE, PAUSER_ROLE}
SupplyInputs == 0..MaxTokenSupply
MintAmounts == {0, 1, 2}
RoleLists == {<<MINTER_ROLE>>, <<PAUSER_ROLE>>, <<MINTER_ROLE, PAUSER_ROLE>>}
RoleAccounts == {"owner", "alice"}
\* SecureVault: msg.value of deposit, amount of withdraw
DepositValues == {0, 1, 2}
WithdrawAmounts == 0..3
RECURSIVE SeqsUpTo(_, _)
SeqsUpTo(S, n) ==
    IF n = 0 THEN {<<>>}
    ELSE LET shorter == SeqsUpTo(S, n - 1)
         IN shorter \cup {Append(q, x) : q \in {r \in shorter : Len(r) = n - 1}, x \in S}
BatchInputs == SeqsUpTo(SnapshotIds, MaxBatch)

\* ------------------------------------------------------------------- state
VARIABLES
    owner,              \* Ownable._owner
    paused,             \* Pausable._paused
    entered,            \* ReentrancyGuard._status = ENTERED
    machineIdCounter,   \* _machineIdCounter
    machines,           \* machineId -> Machine
    machineTokens,      \* machineId -> token (0: none; k: the MachineToken of machine k)
    operatorMachines,   \* operator -> machineId[]
    snapshotCounters,   \* machineId -> snapshotId
    shareSnapshots,     \* machineId -> snapshotId -> ShareSnapshot
    balanceSnapshots,   \* machineId -> snapshotId -> user -> balance
    revenueClaimed,     \* machineId -> snapshotId -> user -> claimed
    platformFeeBps,
    minRevenueThreshold,
    contractBalance,    \* ether held by MachineDeFi
    tokenBalances,      \* token -> holder -> balance   (ERC20._balances)
    tokenSupply,        \* token -> total supply        (ERC20._totalSupply)
    vault,              \* SecureVault: owner, paused, entered, deposits,
                        \* totalDeposits and the ether it holds (balance)
    roleToken           \* MultiRoleToken: deployed, roles (role -> members), paused,
                        \* entered, balances, totalSupply, maxSupply

vars == <<owner, paused, entered, machineIdCounter, machines, machineTokens,
          operatorMachines, snapshotCounters, shareSnapshots, balanceSnapshots,
          revenueClaimed, platformFeeBps, minRevenueThreshold, contractBalance,
          tokenBalances, tokenSupply, vault, roleToken>>

State ==
    [owner |-> owner, paused |-> paused, entered |-> entered,
     machineIdCounter |-> machineIdCounter, machines |-> machines,
     machineTokens |-> machineTokens, operatorMachines |-> operatorMachines,
     snapshotCounters |-> snapshotCounters, shareSnapshots |-> shareSnapshots,
     balanceSnapshots |-> balanceSnapshots, revenueClaimed |-> revenueClaimed,
     platformFeeBps |-> platformFeeBps, minRevenueThreshold |-> minRevenueThreshold,
     contractBalance |-> contractBalance, tokenBalances |-> tokenBalances,
     tokenSupply |-> tokenSupply]

NoMachine == [operator |-> ZeroAddress, metadataURI |-> "", totalShares |-> 0,
              totalRevenue |-> 0, active |-> FALSE]
NoSnapshot == [snapshotId |-> 0, totalShares |-> 0, revenueAmount |-> 0,
               distributedAmount |-> 0, completed |-> FALSE]

\* MultiRoleToken before its constructor has run
NotDeployed ==
    [deployed |-> FALSE, roles |-> [r \in Roles |-> {}], paused |-> FALSE, entered |-> FALSE,
     balances |-> [a \in Addresses |-> 0], totalSupply |-> 0, maxSupply |-> 0]

Init ==
    /\ owner = Deployer
    /\ paused = FALSE
    /\ entered = FALSE
    /\ machineIdCounter = 0
    /\ machines = [m \in MachineIds |-> NoMachine]
    /\ machineTokens = [m \in MachineIds |-> 0]
    /\ operatorMachines = [a \in Addresses |-> <<>>]
    /\ snapshotCounters = [m \in MachineIds |-> 0]
    /\ shareSnapshots = [m \in MachineIds |-> [s \in SnapshotIds |-> NoSnapshot]]
    /\ balanceSnapshots = [m \in MachineIds |-> [s \in SnapshotIds |-> [a \in Addresses |-> 0]]]
    /\ revenueClaimed = [m \in MachineIds |-> [s \in SnapshotIds |-> [a \in Addresses |-> FALSE]]]
    /\ platformFeeBps = DefaultPlatformFeeBps
    /\ minRevenueThreshold = DefaultMinRevenueThreshold
    /\ contractBalance = 0
    /\ tokenBalances = [m \in MachineIds |-> [a \in Addresses |-> 0]]
    /\ tokenSupply = [m \in MachineIds |-> 0]
    /\ vault = [owner |-> Deployer, paused |-> FALSE, entered |-> FALSE,
                deposits |-> [a \in Addresses |-> 0], totalDeposits |-> 0, balance |-> 0]
    /\ roleToken = NotDeployed

\* ------------------------------------------------------------ call outcomes
Revert(st, e) == [err |-> e, st |-> st, sent |-> <<>>, events |-> <<>>, ret |-> 0]
Return(st, sent, events, ret) == [err |-> "", st |-> st, sent |-> sent, events |-> events, ret |-> ret]
Succeeded(r) == r.err = ""

\* ------------------------------------------------------------- MachineToken
balanceOf(st, token, a) == st.tokenBalances[token][a]
totalSupply(st, token) == st.tokenSupply[token]

\* faulty variant: the supply grows but nobody is credited
mintSupplyOnly(st, token, to, amount) ==
    [st EXCEPT !.tokenSupply[token] = @ + amount]

\* MachineToken.mint, onlyOwner: the ledger, which deployed the token, is its owner
mint(st, token, to, amount) ==
    [st EXCEPT !.tokenBalances[token][to] = @ + amount,
               !.tokenSupply[token] = @ + amount]

\* ERC20._burn, once its checks have passed
burn(st, token, from, amount) ==
    [st EXCEPT !.tokenBalances[token][from] = @ - amount,
               !.tokenSupply[token] = @ - amount]

\* faulty variant: mint without onlyOwner
mintCallByAnyone(st, token, sender, to, amount) ==
    IF to = ZeroAddress THEN Revert(st, "ERC20InvalidReceiver")
    ELSE Return(mint(st, token, to, amount), <<>>, <<>>, 0)

\* MachineToken.mint as a transaction of sender: onlyOwner, and the owner of
\* every MachineToken is the ledger that deployed it
mintCall(st, token, sender, to, amount) ==
    IF sender # Ledger THEN Revert(st, "OwnableUnauthorizedAccount")
    ELSE IF to = ZeroAddress THEN Revert(st, "ERC20InvalidReceiver")
    ELSE Return(mint(st, token, to, amount), <<>>, <<>>, 0)

\* MachineToken.burn as a transaction of sender
burnCall(st, token, sender, from, amount) ==
    IF sender # Ledger THEN Revert(st, "OwnableUnauthorizedAccount")
    ELSE IF from = ZeroAddress THEN Revert(st, "ERC20InvalidSender")
    ELSE IF balanceOf(st, token, from) < amount THEN Revert(st, "ERC20InsufficientBalance")
    ELSE Return(burn(st, token, from, amount), <<>>, <<>>, 0)

\* faulty variant: the recipient is credited, the sender is not debited
transferCreditOnly(st, token, sender, to, amount) ==
    IF to = ZeroAddress THEN Revert(st, "ERC20InvalidReceiver")
    ELSE IF balanceOf(st, token, sender) < amount THEN Revert(st, "ERC20InsufficientBalance")
    ELSE Return([st EXCEPT !.tokenBalances[token][to] = @ + amount], <<>>, <<>>, 0)

\* ERC20.transfer of the share token of machine `token`
transfer(st, token, sender, to, amount) ==
    IF to = ZeroAddress THEN Revert(st, "ERC20InvalidReceiver")
    ELSE IF balanceOf(st, token, sender) < amount THEN Revert(st, "ERC20InsufficientBalance")
    ELSE Return([st EXCEPT !.tokenBalances[token] =
                     [a \in Addresses |->
                        (IF a = sender THEN @[a] - amount ELSE @[a])
                        + (IF a = to THEN amount ELSE 0)]],
                <<>>, <<>>, 0)

\* ---------------------------------------------------------------- MachineDeFi
\* faulty variant: every machine id passes
machineExistsAlways(st, machineId) == TRUE

\* modifier machineExists
machineExists(st, machineId) == st.machines[machineId].operator # ZeroAddress

\* faulty variant: the caller is not compared with the machine's operator
isMachineOperatorAnyone(st, machineId, sender) == TRUE

\* modifier onlyMachineOperator
isMachineOperator(st, machineId, sender) == st.machines[machineId].operator = sender

\* faulty variant: the fee rounded up
platformFeeRoundedUp(value, feeBps) == (value * feeBps + BpsDenominator - 1) \div BpsDenominator

\* (msg.value * platformFeeBps) / 10000
platformFeeOf(value, feeBps) == (value * feeBps) \div BpsDenominator

\* faulty variant: the share rounded up
revenueShareRoundedUp(snapshot, userShares) ==
    (snapshot.revenueAmount * userShares + snapshot.totalShares - 1) \div snapshot.totalShares

\* faulty variant: divides before it multiplies
revenueShareDivFirst(snapshot, userShares) ==
    (snapshot.revenueAmount \div snapshot.totalShares) * userShares

\* (snapshot.revenueAmount * userShares) / snapshot.totalShares
revenueShareOf(snapshot, userShares) ==
    (snapshot.revenueAmount * userShares) \div snapshot.totalShares

\* faulty variant: the result of the call is not looked at
callAlwaysSucceeds(st, value, accepts) == TRUE

\* to.call{value: value}(""): fails when the recipient rejects the ether or the
\* ledger does not hold it
callSucceeds(st, value, accepts) == accepts /\ st.contractBalance >= value

\* faulty variant: the guard is not taken
nonReentrantBeforeSkipped(st) == st

\* modifier nonReentrant, on entry: the guard is taken (it is released on exit)
nonReentrantBefore(st) == [st EXCEPT !.entered = TRUE]

\* the storage and ether of the ledger while the fee of a deposit is being
\* transferred: msg.value received, the fee on its way, nothing written yet
duringFeeTransfer(st, machineId, value) ==
    [nonReentrantBefore(st) EXCEPT
        !.contractBalance = @ + value - platformFeeOf(value, st.platformFeeBps)]

\* ... and while a claim r is being paid: the payout is the last thing the claim
\* functions do, so all they write is written
duringPayout(r) == nonReentrantBefore(r.st)

\* faulty variant: the claimed marker is not consulted
alreadyClaimedIgnored(st, machineId, snapshotId, sender) == FALSE

\* revenueClaimed[machineId][snapshotId][msg.sender]
alreadyClaimed(st, machineId, snapshotId, sender) ==
    st.revenueClaimed[machineId][snapshotId][sender]

\* faulty variant: the counter stops at the first id
nextSnapshotIdReused(st, machineId) ==
    IF st.snapshotCounters[machineId] = 0 THEN 1 ELSE st.snapshotCounters[machineId]

\* ++snapshotCounters[machineId]
nextSnapshotId(st, machineId) == st.snapshotCounters[machineId] + 1

\* the balance the claim paths use for (machineId, snapshotId, sender): the stored
\* one, or else the token's current balance
userSharesOf(st, machineId, snapshotId, sender) ==
    IF st.balanceSnapshots[machineId][snapshotId][sender] # 0
    THEN st.balanceSnapshots[machineId][snapshotId][sender]
    ELSE balanceOf(st, st.machineTokens[machineId], sender)

\* faulty variant: the store overwrites a balance stored before
storeUserSharesOverwriting(st, machineId, snapshotId, sender) ==
    IF balanceOf(st, st.machineTokens[machineId], sender) > 0
    THEN [st EXCEPT !.balanceSnapshots[machineId][snapshotId][sender] =
                        balanceOf(st, st.machineTokens[machineId], sender)]
    ELSE st

\* ... and the lazy store of that balance
storeUserShares(st, machineId, snapshotId, sender) ==
    IF st.balanceSnapshots[machineId][snapshotId][sender] = 0
       /\ balanceOf(st, st.machineTokens[machineId], sender) > 0
    THEN [st EXCEPT !.balanceSnapshots[machineId][snapshotId][sender] =
                        balanceOf(st, st.machineTokens[machineId], sender)]
    ELSE st

\* what registerMachine does once its checks have passed
registerMachineEffects(st, operator, totalShares) ==
    LET machineId == st.machineIdCounter + 1
        registered ==
          [st EXCEPT !.machineIdCounter = machineId,
                     !.machines[machineId] =
                         [operator |-> operator, metadataURI |-> RegisteredMetadataURI,
                          totalShares |-> totalShares, totalRevenue |-> 0, active |-> TRUE],
                     !.machineTokens[machineId] = machineId,
                     !.operatorMachines[operator] = Append(@, machineId)]
    IN Return(mint(registered, machineId, operator, totalShares), <<>>,
              <<[name |-> "MachineRegistered", machineId |-> machineId, operator |-> operator]>>,
              machineId)

\* faulty variant: the operator is not checked
registerMachineAnyOperator(st, sender, operator, totalShares) ==
    IF st.paused THEN Revert(st, "EnforcedPause")
    ELSE IF totalShares = 0 THEN Revert(st, "InvalidMachineId")
    ELSE registerMachineEffects(st, operator, totalShares)

registerMachine(st, sender, operator, totalShares) ==
    IF st.paused THEN Revert(st, "EnforcedPause")
    ELSE IF operator = ZeroAddress THEN Revert(st, "ZeroAddress")
    ELSE IF totalShares = 0 THEN Revert(st, "InvalidMachineId")
    ELSE registerMachineEffects(st, operator, totalShares)

\* the ShareSnapshot reportRevenue stores
newSnapshot(snapshotId, totalShares, revenueToDistribute) ==
    [snapshotId |-> snapshotId, totalShares |-> totalShares,
     revenueAmount |-> revenueToDistribute, distributedAmount |-> 0, completed |-> FALSE]

\* faulty variant: the operator's balance is not stored with the snapshot
reportRevenueEffectsNoCache(st, machineId, value) ==
    LET platformFee == platformFeeOf(value, st.platformFeeBps)
        revenueToDistribute == value - platformFee
        snapshotId == nextSnapshotId(st, machineId)
        token == st.machineTokens[machineId]
    IN [st EXCEPT !.machines[machineId].totalRevenue = @ + value,
                  !.snapshotCounters[machineId] = snapshotId,
                  !.shareSnapshots[machineId][snapshotId] =
                      newSnapshot(snapshotId, totalSupply(st, token), revenueToDistribute),
                  !.contractBalance = @ + value - platformFee]

\* faulty variant: the revenue of the machine grows by the amount after the fee
reportRevenueEffectsNet(st, machineId, value) ==
    LET platformFee == platformFeeOf(value, st.platformFeeBps)
        revenueToDistribute == value - platformFee
        snapshotId == nextSnapshotId(st, machineId)
        token == st.machineTokens[machineId]
        operator == st.machines[machineId].operator
        operatorBalance == balanceOf(st, token, operator)
    IN [st EXCEPT !.machines[machineId].totalRevenue = @ + revenueToDistribute,
                  !.snapshotCounters[machineId] = snapshotId,
                  !.shareSnapshots[machineId][snapshotId] =
                      newSnapshot(snapshotId, totalSupply(st, token), revenueToDistribute),
                  !.balanceSnapshots[machineId][snapshotId][operator] =
                      IF operatorBalance > 0 THEN operatorBalance ELSE @,
                  !.contractBalance = @ + value - platformFee]

\* the storage reportRevenue leaves when it succeeds
reportRevenueEffects(st, machineId, value) ==
    LET platformFee == platformFeeOf(value, st.platformFeeBps)
        revenueToDistribute == value - platformFee
        snapshotId == nextSnapshotId(st, machineId)
        token == st.machineTokens[machineId]
        operator == st.machines[machineId].operator
        operatorBalance == balanceOf(st, token, operator)
    IN [st EXCEPT !.machines[machineId].totalRevenue = @ + value,
                  !.snapshotCounters[machineId] = snapshotId,
                  !.shareSnapshots[machineId][snapshotId] =
                      newSnapshot(snapshotId, totalSupply(st, token), revenueToDistribute),
                  !.balanceSnapshots[machineId][snapshotId][operator] =
                      IF operatorBalance > 0 THEN operatorBalance ELSE @,
                  !.contractBalance = @ + value - platformFee]

reportRevenue(st, sender, machineId, value, feeAccepted) ==
    IF ~machineExists(st, machineId) THEN Revert(st, "MachineNotFound")
    ELSE IF ~isMachineOperator(st, machineId, sender) THEN Revert(st, "UnauthorizedOperator")
    ELSE IF st.paused THEN Revert(st, "EnforcedPause")
    ELSE IF st.entered THEN Revert(st, "ReentrancyGuardReentrantCall")
    ELSE IF ~st.machines[machineId].active THEN Revert(st, "MachineNotActive")
    ELSE IF value < st.minRevenueThreshold THEN Revert(st, "InsufficientRevenue")
    ELSE
      LET platformFee == platformFeeOf(value, st.platformFeeBps)
      IN IF platformFee > 0 /\ ~feeAccepted THEN Revert(st, "Fee transfer failed")
         ELSE Return(reportRevenueEffects(st, machineId, value),
                     IF platformFee > 0
                     THEN <<[to |-> st.owner, value |-> platformFee]>> ELSE <<>>,
                     <<[name |-> "RevenueReported", machineId |-> machineId, amount |-> value,
                        snapshotId |-> nextSnapshotId(st, machineId), reporter |-> sender]>>,
                     0)

\* faulty variant: the claimed marker is kept per snapshot id and holder, for
\* all machines alike
markClaimedEveryMachine(st, machineId, snapshotId, sender, userRevenue) ==
    LET distributed == st.shareSnapshots[machineId][snapshotId].distributedAmount + userRevenue
        revenue == st.shareSnapshots[machineId][snapshotId].revenueAmount
    IN [st EXCEPT !.revenueClaimed =
                      [m \in MachineIds |-> [@[m] EXCEPT ![snapshotId][sender] = TRUE]],
                  !.shareSnapshots[machineId][snapshotId].distributedAmount = distributed,
                  !.shareSnapshots[machineId][snapshotId].completed =
                      IF distributed >= revenue THEN TRUE ELSE @]

\* faulty variant: the claim is marked but the distributed amount is not raised
markClaimedUncounted(st, machineId, snapshotId, sender, userRevenue) ==
    [st EXCEPT !.revenueClaimed[machineId][snapshotId][sender] = TRUE]

\* the bookkeeping of one claimed snapshot: claimed marker, distributedAmount, completed
markClaimed(st, machineId, snapshotId, sender, userRevenue) ==
    LET distributed == st.shareSnapshots[machineId][snapshotId].distributedAmount + userRevenue
        revenue == st.shareSnapshots[machineId][snapshotId].revenueAmount
    IN [st EXCEPT !.revenueClaimed[machineId][snapshotId][sender] = TRUE,
                  !.shareSnapshots[machineId][snapshotId].distributedAmount = distributed,
                  !.shareSnapshots[machineId][snapshotId].completed =
                      IF distributed >= revenue THEN TRUE ELSE @]

claimRevenue(st, sender, machineId, snapshotId, accepts) ==
    IF ~machineExists(st, machineId) THEN Revert(st, "MachineNotFound")
    ELSE IF st.paused THEN Revert(st, "EnforcedPause")
    ELSE IF st.entered THEN Revert(st, "ReentrancyGuardReentrantCall")
    ELSE IF st.shareSnapshots[machineId][snapshotId].revenueAmount = 0
         THEN Revert(st, "InvalidMachineId")
    ELSE IF alreadyClaimed(st, machineId, snapshotId, sender) THEN Revert(st, "AlreadyClaimed")
    ELSE
      LET userShares == userSharesOf(st, machineId, snapshotId, sender)
          stored == storeUserShares(st, machineId, snapshotId, sender)
      IN IF userShares = 0 THEN Revert(st, "NoSharesOwned")
         ELSE
           LET userRevenue == revenueShareOf(st.shareSnapshots[machineId][snapshotId], userShares)
               claimed == markClaimed(stored, machineId, snapshotId, sender, userRevenue)
           IN IF userRevenue = 0 THEN Revert(st, "InsufficientRevenue")
              ELSE IF ~callSucceeds(st, userRevenue, accepts)
                   THEN Revert(st, "Revenue transfer failed")
              ELSE Return([claimed EXCEPT !.contractBalance = @ - userRevenue],
                          <<[to |-> sender, value |-> userRevenue]>>,
                          <<[name |-> "RevenueClaimed", machineId |-> machineId,
                             snapshotId |-> snapshotId, user |-> sender, amount |-> userRevenue]>>,
                          0)

\* faulty variant: the loop body without the claimed check
batchStepPaysAgain(acc, sender, machineId, snapshotId) ==
    IF acc.st.shareSnapshots[machineId][snapshotId].revenueAmount = 0 THEN acc
    ELSE
      LET userShares == userSharesOf(acc.st, machineId, snapshotId, sender)
          userRevenue == revenueShareOf(acc.st.shareSnapshots[machineId][snapshotId], userShares)
      IN IF userRevenue > 0
         THEN [st |-> markClaimed(storeUserShares(acc.st, machineId, snapshotId, sender),
                                  machineId, snapshotId, sender, userRevenue),
               totalClaimed |-> acc.totalClaimed + userRevenue]
         ELSE acc

\* one iteration of the loop of batchClaimRevenue: acc = [st, totalClaimed]
batchStep(acc, sender, machineId, snapshotId) ==
    IF alreadyClaimed(acc.st, machineId, snapshotId, sender) THEN acc
    ELSE IF acc.st.shareSnapshots[machineId][snapshotId].revenueAmount = 0 THEN acc
    ELSE
      LET userShares == userSharesOf(acc.st, machineId, snapshotId, sender)
          stored == storeUserShares(acc.st, machineId, snapshotId, sender)
      IN IF userShares = 0 THEN acc
         ELSE
           LET userRevenue == revenueShareOf(acc.st.shareSnapshots[machineId][snapshotId], userShares)
           IN IF userRevenue > 0
              THEN [st |-> markClaimed(stored, machineId, snapshotId, sender, userRevenue),
                    totalClaimed |-> acc.totalClaimed + userRevenue]
              ELSE [st |-> stored, totalClaimed |-> acc.totalClaimed]

RECURSIVE batchLoop(_, _, _, _, _)
batchLoop(acc, sender, machineId, snapshotIds, i) ==
    IF i > Len(snapshotIds) THEN acc
    ELSE batchLoop(batchStep(acc, sender, machineId, snapshotIds[i]),
                   sender, machineId, snapshotIds, i + 1)

batchClaimRevenue(st, sender, machineId, snapshotIds, accepts) ==
    IF ~machineExists(st, machineId) THEN Revert(st, "MachineNotFound")
    ELSE IF st.paused THEN Revert(st, "EnforcedPause")
    ELSE IF st.entered THEN Revert(st, "ReentrancyGuardReentrantCall")
    ELSE
      LET done == batchLoop([st |-> st, totalClaimed |-> 0], sender, machineId, snapshotIds, 1)
      IN IF done.totalClaimed > 0
         THEN IF ~callSucceeds(st, done.totalClaimed, accepts)
              THEN Revert(st, "Batch revenue transfer failed")
              ELSE Return([done.st EXCEPT !.contractBalance = @ - done.totalClaimed],
                          <<[to |-> sender, value |-> done.totalClaimed]>>,
                          <<[name |-> "RevenueClaimed", machineId |-> machineId,
                             snapshotId |-> snapshotIds[1], user |-> sender,
                             amount |-> done.totalClaimed]>>,
                          0)
         ELSE Return(done.st, <<>>, <<>>, 0)

\* the loop of getClaimableRevenue over the snapshot ids i..snapshotCount:
\* found = [totalClaimable, snapshotIds, amounts]
RECURSIVE claimableLoop(_, _, _, _, _)
claimableLoop(st, machineId, user, i, found) ==
    IF i > st.snapshotCounters[machineId] THEN found
    ELSE
      LET snapshot == st.shareSnapshots[machineId][i]
          userShares == userSharesOf(st, machineId, i, user)
          userRevenue == revenueShareOf(snapshot, userShares)
          skip == \/ alreadyClaimed(st, machineId, i, user)
                  \/ snapshot.revenueAmount = 0
                  \/ userShares = 0
                  \/ userRevenue = 0
      IN claimableLoop(st, machineId, user, i + 1,
            IF skip THEN found
            ELSE [totalClaimable |-> found.totalClaimable + userRevenue,
                  snapshotIds |-> Append(found.snapshotIds, i),
                  amounts |-> Append(found.amounts, userRevenue)])

\* faulty variant: the read caches the balance it looked up, as the claims do
getClaimableRevenueCaching(st, machineId, user) ==
    Return(storeUserShares(st, machineId, 1, user), <<>>, <<>>,
           claimableLoop(st, machineId, user, 1,
                         [totalClaimable |-> 0, snapshotIds |-> <<>>, amounts |-> <<>>]))

\* a view: it returns (totalClaimable, snapshotIds, amounts) and writes nothing
getClaimableRevenue(st, machineId, user) ==
    Return(st, <<>>, <<>>,
           claimableLoop(st, machineId, user, 1,
                         [totalClaimable |-> 0, snapshotIds |-> <<>>, amounts |-> <<>>]))

updateMachineMetadata(st, sender, machineId, newMetadataURI) ==
    IF ~machineExists(st, machineId) THEN Revert(st, "MachineNotFound")
    ELSE IF ~isMachineOperator(st, machineId, sender) THEN Revert(st, "UnauthorizedOperator")
    ELSE Return([st EXCEPT !.machines[machineId].metadataURI = newMetadataURI], <<>>,
                <<[name |-> "MachineMetadataUpdated", machineId |-> machineId,
                   newMetadataURI |-> newMetadataURI]>>, 0)

\* faulty variant: the machine is left active whatever is asked
setMachineStatusAlwaysActive(st, sender, machineId, active) ==
    IF ~machineExists(st, machineId) THEN Revert(st, "MachineNotFound")
    ELSE IF ~isMachineOperator(st, machineId, sender) THEN Revert(st, "UnauthorizedOperator")
    ELSE Return([st EXCEPT !.machines[machineId].active = TRUE], <<>>,
                <<[name |-> "MachineStatusChanged", machineId |-> machineId, active |-> active]>>, 0)

setMachineStatus(st, sender, machineId, active) ==
    IF ~machineExists(st, machineId) THEN Revert(st, "MachineNotFound")
    ELSE IF ~isMachineOperator(st, machineId, sender) THEN Revert(st, "UnauthorizedOperator")
    ELSE Return([st EXCEPT !.machines[machineId].active = active], <<>>,
                <<[name |-> "MachineStatusChanged", machineId |-> machineId, active |-> active]>>, 0)

\* faulty variant: the new operator is not checked
transferOperatorUnchecked(st, sender, machineId, newOperator) ==
    IF ~machineExists(st, machineId) THEN Revert(st, "MachineNotFound")
    ELSE IF ~isMachineOperator(st, machineId, sender) THEN Revert(st, "UnauthorizedOperator")
    ELSE Return([st EXCEPT !.machines[machineId].operator = newOperator], <<>>, <<>>, 0)

transferOperator(st, sender, machineId, newOperator) ==
    IF ~machineExists(st, machineId) THEN Revert(st, "MachineNotFound")
    ELSE IF ~isMachineOperator(st, machineId, sender) THEN Revert(st, "UnauthorizedOperator")
    ELSE IF newOperator = ZeroAddress THEN Revert(st, "ZeroAddress")
    ELSE Return([st EXCEPT !.machines[machineId].operator = newOperator], <<>>, <<>>, 0)

\* a view: the machine ids recorded for an operator
getOperatorMachines(st, operator) == st.operatorMachines[operator]

\* faulty variant: any fee is accepted
setPlatformFeeUnbounded(st, sender, newFeeBps) ==
    IF sender # st.owner THEN Revert(st, "OwnableUnauthorizedAccount")
    ELSE Return([st EXCEPT !.platformFeeBps = newFeeBps], <<>>, <<>>, 0)

setPlatformFee(st, sender, newFeeBps) ==
    IF sender # st.owner THEN Revert(st, "OwnableUnauthorizedAccount")
    ELSE IF newFeeBps > MaxPlatformFeeBps THEN Revert(st, "InvalidFee")
    ELSE Return([st EXCEPT !.platformFeeBps = newFeeBps], <<>>, <<>>, 0)

setMinRevenueThreshold(st, sender, newThreshold) ==
    IF sender # st.owner THEN Revert(st, "OwnableUnauthorizedAccount")
    ELSE Return([st EXCEPT !.minRevenueThreshold = newThreshold], <<>>, <<>>, 0)

\* faulty variant: anyone may pause
pauseByAnyone(st, sender) ==
    IF st.paused THEN Revert(st, "EnforcedPause")
    ELSE Return([st EXCEPT !.paused = TRUE], <<>>, <<>>, 0)

pause(st, sender) ==
    IF sender # st.owner THEN Revert(st, "OwnableUnauthorizedAccount")
    ELSE IF st.paused THEN Revert(st, "EnforcedPause")
    ELSE Return([st EXCEPT !.paused = TRUE], <<>>, <<>>, 0)

unpause(st, sender) ==
    IF sender # st.owner THEN Revert(st, "OwnableUnauthorizedAccount")
    ELSE IF ~st.paused THEN Revert(st, "ExpectedPause")
    ELSE Return([st EXCEPT !.paused = FALSE], <<>>, <<>>, 0)

\* ---------------------------------------------------------------- SecureVault
\* the functions of the vault map its storage v and the call's inputs to the
\* call's outcome, as those of the ledger do
deposit(v, sender, value) ==
    IF v.paused THEN Revert(v, "EnforcedPause")
    ELSE IF v.entered THEN Revert(v, "ReentrancyGuardReentrantCall")
    ELSE IF ~(value > 0) THEN Revert(v, "Must deposit something")
    ELSE Return([v EXCEPT !.deposits[sender] = @ + value,
                          !.totalDeposits = @ + value,
                          !.balance = @ + value],
                <<>>, <<[name |-> "Deposit", user |-> sender, amount |-> value]>>, 0)

\* faulty variant: the caller's recorded deposit is not checked
withdrawUnchecked(v, sender, amount, accepts) ==
    IF v.paused THEN Revert(v, "EnforcedPause")
    ELSE IF v.entered THEN Revert(v, "ReentrancyGuardReentrantCall")
    ELSE IF v.balance < amount THEN Revert(v, "Contract insufficient funds")
    ELSE IF v.totalDeposits < amount THEN Revert(v, "Panic(0x11)")
    ELSE IF ~accepts THEN Revert(v, "Transfer failed")
    ELSE Return([v EXCEPT !.deposits[sender] = @ - amount,
                          !.totalDeposits = @ - amount,
                          !.balance = @ - amount],
                <<[to |-> sender, value |-> amount]>>,
                <<[name |-> "Withdrawal", user |-> sender, amount |-> amount]>>, 0)

\* totalDeposits -= amount is checked arithmetic: it panics rather than wrap
withdraw(v, sender, amount, accepts) ==
    IF v.paused THEN Revert(v, "EnforcedPause")
    ELSE IF v.entered THEN Revert(v, "ReentrancyGuardReentrantCall")
    ELSE IF ~(v.deposits[sender] >= amount) THEN Revert(v, "Insufficient balance")
    ELSE IF ~(v.balance >= amount) THEN Revert(v, "Contract insufficient funds")
    ELSE IF v.totalDeposits < amount THEN Revert(v, "Panic(0x11)")
    ELSE IF ~accepts THEN Revert(v, "Transfer failed")
    ELSE Return([v EXCEPT !.deposits[sender] = @ - amount,
                          !.totalDeposits = @ - amount,
                          !.balance = @ - amount],
                <<[to |-> sender, value |-> amount]>>,
                <<[name |-> "Withdrawal", user |-> sender, amount |-> amount]>>, 0)

\* faulty variant: emergencyWithdraw without onlyOwner
emergencyWithdrawByAnyone(v, sender, accepts) ==
    IF ~accepts THEN Revert(v, "Emergency withdraw failed")
    ELSE Return([v EXCEPT !.totalDeposits = 0, !.balance = 0],
                <<[to |-> v.owner, value |-> v.balance]>>,
                <<[name |-> "EmergencyWithdraw", owner |-> v.owner, amount |-> v.balance]>>, 0)

\* it is neither whenNotPaused nor nonReentrant, and leaves deposits as they are
emergencyWithdraw(v, sender, accepts) ==
    IF sender # v.owner THEN Revert(v, "OwnableUnauthorizedAccount")
    ELSE IF ~accepts THEN Revert(v, "Emergency withdraw failed")
    ELSE Return([v EXCEPT !.totalDeposits = 0, !.balance = 0],
                <<[to |-> v.owner, value |-> v.balance]>>,
                <<[name |-> "EmergencyWithdraw", owner |-> v.owner, amount |-> v.balance]>>, 0)

\* SecureVault.pause and unpause
vaultPause(v, sender) ==
    IF sender # v.owner THEN Revert(v, "OwnableUnauthorizedAccount")
    ELSE IF v.paused THEN Revert(v, "EnforcedPause")
    ELSE Return([v EXCEPT !.paused = TRUE], <<>>, <<>>, 0)

vaultUnpause(v, sender) ==
    IF sender # v.owner THEN Revert(v, "OwnableUnauthorizedAccount")
    ELSE IF ~v.paused THEN Revert(v, "ExpectedPause")
    ELSE Return([v EXCEPT !.paused = FALSE], <<>>, <<>>, 0)

\* ------------------------------------------------------------- MultiRoleToken
\* the functions of the token map its storage k and the call's inputs to the
\* call's outcome
hasRole(k, role, account) == account \in k.roles[role]

\* the constructor: the deployer gets every role and the initial supply
mrtConstructor(sender, initialSupply, maxSupply) ==
    [deployed |-> TRUE, roles |-> [r \in Roles |-> {sender}], paused |-> FALSE,
     entered |-> FALSE,
     balances |-> [a \in Addresses |-> IF a = sender THEN initialSupply ELSE 0],
     totalSupply |-> initialSupply, maxSupply |-> maxSupply]

\* ERC20._mint and ERC20._burn, once their checks have passed
mrtMinted(k, to, amount) ==
    [k EXCEPT !.balances[to] = @ + amount, !.totalSupply = @ + amount]

mrtBurnt(k, from, amount) ==
    [k EXCEPT !.balances[from] = @ - amount, !.totalSupply = @ - amount]

\* faulty variant: the cap is not checked
mrtMintUncapped(k, sender, to, amount) ==
    IF ~hasRole(k, MINTER_ROLE, sender) THEN Revert(k, "AccessControlUnauthorizedAccount")
    ELSE IF k.paused THEN Revert(k, "EnforcedPause")
    ELSE IF k.entered THEN Revert(k, "ReentrancyGuardReentrantCall")
    ELSE IF to = ZeroAddress THEN Revert(k, "ERC20InvalidReceiver")
    ELSE Return(mrtMinted(k, to, amount), <<>>,
                <<[name |-> "Minted", to |-> to, amount |-> amount, minter |-> sender]>>, 0)

\* MultiRoleToken.mint
mrtMint(k, sender, to, amount) ==
    IF ~hasRole(k, MINTER_ROLE, sender) THEN Revert(k, "AccessControlUnauthorizedAccount")
    ELSE IF k.paused THEN Revert(k, "EnforcedPause")
    ELSE IF k.entered THEN Revert(k, "ReentrancyGuardReentrantCall")
    ELSE IF ~(k.totalSupply + amount <= k.maxSupply) THEN Revert(k, "Exceeds max supply")
    ELSE IF to = ZeroAddress THEN Revert(k, "ERC20InvalidReceiver")
    ELSE Return(mrtMinted(k, to, amount), <<>>,
                <<[name |-> "Minted", to |-> to, amount |-> amount, minter |-> sender]>>, 0)

\* MultiRoleToken.burn
mrtBurn(k, sender, from, amount) ==
    IF ~hasRole(k, BURNER_ROLE, sender) THEN Revert(k, "AccessControlUnauthorizedAccount")
    ELSE IF k.paused THEN Revert(k, "EnforcedPause")
    ELSE IF k.entered THEN Revert(k, "ReentrancyGuardReentrantCall")
    ELSE IF from = ZeroAddress THEN Revert(k, "ERC20InvalidSender")
    ELSE IF k.balances[from] < amount THEN Revert(k, "ERC20InsufficientBalance")
    ELSE Return(mrtBurnt(k, from, amount), <<>>,
                <<[name |-> "Burned", from |-> from, amount |-> amount, burner |-> sender]>>, 0)

burnFromSelf(k, sender, amount) ==
    IF k.paused THEN Revert(k, "EnforcedPause")
    ELSE IF k.balances[sender] < amount THEN Revert(k, "ERC20InsufficientBalance")
    ELSE Return(mrtBurnt(k, sender, amount), <<>>,
                <<[name |-> "Burned", from |-> sender, amount |-> amount, burner |-> sender]>>, 0)

setMaxSupply(k, sender, newMaxSupply) ==
    IF ~hasRole(k, DEFAULT_ADMIN_ROLE, sender) THEN Revert(k, "AccessControlUnauthorizedAccount")
    ELSE IF ~(newMaxSupply >= k.totalSupply) THEN Revert(k, "New max supply too low")
    ELSE Return([k EXCEPT !.maxSupply = newMaxSupply], <<>>,
                <<[name |-> "MaxSupplyUpdated", oldMaxSupply |-> k.maxSupply,
                   newMaxSupply |-> newMaxSupply]>>, 0)

\* MultiRoleToken.pause and unpause
mrtPause(k, sender) ==
    IF ~hasRole(k, PAUSER_ROLE, sender) THEN Revert(k, "AccessControlUnauthorizedAccount")
    ELSE IF k.paused THEN Revert(k, "EnforcedPause")
    ELSE Return([k EXCEPT !.paused = TRUE], <<>>, <<>>, 0)

mrtUnpause(k, sender) ==
    IF ~hasRole(k, PAUSER_ROLE, sender) THEN Revert(k, "AccessControlUnauthorizedAccount")
    ELSE IF ~k.paused THEN Revert(k, "ExpectedPause")
    ELSE Return([k EXCEPT !.paused = FALSE], <<>>, <<>>, 0)

\* a view: maxSupply - totalSupply() in checked arithmetic
getRemainingMintable(k) ==
    IF k.maxSupply < k.totalSupply THEN Revert(k, "Panic(0x11)")
    ELSE Return(k, <<>>, <<>>, k.maxSupply - k.totalSupply)

\* the loops of grantRoles and revokeRoles over roles[i..]: the admin of every
\* role is DEFAULT_ADMIN_ROLE, which the caller holds
RECURSIVE grantLoop(_, _, _, _)
grantLoop(k, account, roles, i) ==
    IF i > Len(roles) THEN k
    ELSE grantLoop([k EXCEPT !.roles[roles[i]] = @ \cup {account}], account, roles, i + 1)

RECURSIVE revokeLoop(_, _, _, _)
revokeLoop(k, account, roles, i) ==
    IF i > Len(roles) THEN k
    ELSE revokeLoop([k EXCEPT !.roles[roles[i]] = @ \ {account}], account, roles, i + 1)

grantRoles(k, sender, account, roles) ==
    IF ~hasRole(k, DEFAULT_ADMIN_ROLE, sender) THEN Revert(k, "AccessControlUnauthorizedAccount")
    ELSE Return(grantLoop(k, account, roles, 1), <<>>, <<>>, 0)

revokeRoles(k, sender, account, roles) ==
    IF ~hasRole(k, DEFAULT_ADMIN_ROLE, sender) THEN Revert(k, "AccessControlUnauthorizedAccount")
    ELSE Return(revokeLoop(k, account, roles, 1), <<>>, <<>>, 0)

\* ------------------------------------------------------------------ actions
\* a successful call commits the storage it leaves; a reverted call commits nothing
Commit(r) ==
    /\ Succeeded(r)
    /\ owner' = r.st.owner
    /\ paused' = r.st.paused
    /\ entered' = r.st.entered
    /\ machineIdCounter' = r.st.machineIdCounter
    /\ machines' = r.st.machines
    /\ machineTokens' = r.st.machineTokens
    /\ operatorMachines' = r.st.operatorMachines
    /\ snapshotCounters' = r.st.snapshotCounters
    /\ shareSnapshots' = r.st.shareSnapshots
    /\ balanceSnapshots' = r.st.balanceSnapshots
    /\ revenueClaimed' = r.st.revenueClaimed
    /\ platformFeeBps' = r.st.platformFeeBps
    /\ minRevenueThreshold' = r.st.minRevenueThreshold
    /\ contractBalance' = r.st.contractBalance
    /\ tokenBalances' = r.st.tokenBalances
    /\ tokenSupply' = r.st.tokenSupply
    /\ UNCHANGED <<vault, roleToken>>

\* ... and so does a call of the vault, which leaves the ledger alone
VaultCommit(r) ==
    /\ Succeeded(r)
    /\ vault' = r.st
    /\ UNCHANGED <<owner, paused, entered, machineIdCounter, machines, machineTokens,
                   operatorMachines, snapshotCounters, shareSnapshots, balanceSnapshots,
                   revenueClaimed, platformFeeBps, minRevenueThreshold, contractBalance,
                   tokenBalances, tokenSupply, roleToken>>

\* ... and one of the capped token
TokenCommit(r) ==
    /\ Succeeded(r)
    /\ roleToken.deployed
    /\ roleToken' = r.st
    /\ UNCHANGED <<owner, paused, entered, machineIdCounter, machines, machineTokens,
                   operatorMachines, snapshotCounters, shareSnapshots, balanceSnapshots,
                   revenueClaimed, platformFeeBps, minRevenueThreshold, contractBalance,
                   tokenBalances, tokenSupply, vault>>

\* successful deposits so far, over all machines
RECURSIVE SumOver(_, _)
SumOver(f, S) == IF S = {} THEN 0 ELSE LET x == CHOOSE y \in S : TRUE IN f[x] + SumOver(f, S \ {x})
totalSnapshots == SumOver(snapshotCounters, MachineIds)

\* ids registerMachine has handed out: a call that names another id reverts
RegisteredIds == 1..machineIdCounter

\* In the actions the recipient of an outbound transfer accepts it: a rejected
\* transfer reverts the call, which is no step.
RegisterMachineWith(limit, operators, shares) ==
    /\ machineIdCounter < limit
    /\ \E sender \in Addresses, operator \in operators, totalShares \in shares :
          Commit(registerMachine(State, sender, operator, totalShares))

ReportRevenueWith(limit) ==
    /\ totalSnapshots < limit
    /\ \E sender \in Addresses, machineId \in RegisteredIds, value \in MsgValues :
          Commit(reportRevenue(State, sender, machineId, value, TRUE))

RegisterMachine == RegisterMachineWith(MaxMachines, {"alice", ZeroAddress}, {0, 2})

TokenTransfer ==
    \E token \in RegisteredIds, sender \in Holders, to \in Holders \cup {ZeroAddress}, amount \in TransferAmounts :
        Commit(transfer(State, token, sender, to, amount))

ReportRevenue == ReportRevenueWith(MaxSnapshots)

ClaimRevenue ==
    \E sender \in Holders, machineId \in RegisteredIds, snapshotId \in SnapshotIds :
        Commit(claimRevenue(State, sender, machineId, snapshotId, TRUE))

\* an id past the machine's counter names no snapshot, as id 0 does
BatchClaimRevenue ==
    \E sender \in Holders, machineId \in RegisteredIds :
        \E snapshotIds \in {q \in BatchInputs : \A i \in 1..Len(q) : q[i] <= snapshotCounters[machineId]} :
            Commit(batchClaimRevenue(State, sender, machineId, snapshotIds, TRUE))

Pause == \E sender \in Addresses : Commit(pause(State, sender))

Unpause == \E sender \in Addresses : Commit(unpause(State, sender))

\* the revenue life cycle: registration, share transfers, deposits and claims
Next ==
    \/ RegisterMachine
    \/ TokenTransfer
    \/ ReportRevenue
    \/ ClaimRevenue

Spec == Init /\ [][Next]_vars

\* the same with batch claims
NextBatch ==
    \/ RegisterMachine
    \/ TokenTransfer
    \/ ReportRevenue
    \/ BatchClaimRevenue

SpecBatch == Init /\ [][NextBatch]_vars

\* single claims under the emergency stop
NextPause ==
    \/ RegisterMachine
    \/ TokenTransfer
    \/ ReportRevenue
    \/ ClaimRevenue
    \/ Pause
    \/ Unpause

SpecPause == Init /\ [][NextPause]_vars

SetMachineStatus ==
    \E sender \in Addresses, machineId \in RegisteredIds, active \in BOOLEAN :
        Commit(setMachineStatus(State, sender, machineId, active))

TransferOperator ==
    \E sender \in Addresses, machineId \in RegisteredIds, newOperator \in OperatorInputs :
        Commit(transferOperator(State, sender, machineId, newOperator))

SetPlatformFee ==
    \E sender \in Addresses, newFeeBps \in FeeInputs :
        Commit(setPlatformFee(State, sender, newFeeBps))

SetMinRevenueThreshold ==
    \E sender \in Addresses, newThreshold \in ThresholdInputs :
        Commit(setMinRevenueThreshold(State, sender, newThreshold))

\* the registry: registration by anyone for any operator, operator operations, pause
RegisterAnyMachine == RegisterMachineWith(MaxRegistered, OperatorInputs, ShareInputs)

NextRegistry ==
    \/ RegisterAnyMachine
    \/ TransferOperator
    \/ SetMachineStatus
    \/ Pause
    \/ Unpause

SpecRegistry == Init /\ [][NextRegistry]_vars

\* deposits: machines of one operator, their status, the owner's configuration
RegisterDepositMachine == RegisterMachineWith(MaxDepositMachines, {"alice", ZeroAddress}, {0, 2})

ReportAnyRevenue == ReportRevenueWith(MaxReports)

NextDeposits ==
    \/ RegisterDepositMachine
    \/ ReportAnyRevenue
    \/ SetMachineStatus
    \/ SetPlatformFee
    \/ SetMinRevenueThreshold
    \/ Pause
    \/ Unpause

SpecDeposits == Init /\ [][NextDeposits]_vars

\* the operator's functions, with deposits and claims around them
UpdateMachineMetadata ==
    \E sender \in Addresses, machineId \in RegisteredIds, newMetadataURI \in MetadataInputs :
        Commit(updateMachineMetadata(State, sender, machineId, newMetadataURI))

RegisterOperatedMachine == RegisterMachineWith(MaxOperated, {"alice", "bob", ZeroAddress}, {0, 2})

ReportOperatedRevenue == ReportRevenueWith(MaxOperatedReports)

NextOperators ==
    \/ RegisterOperatedMachine
    \/ UpdateMachineMetadata
    \/ SetMachineStatus
    \/ TransferOperator
    \/ ReportOperatedRevenue
    \/ ClaimRevenue
    \/ Pause
    \/ Unpause

SpecOperators == Init /\ [][NextOperators]_vars

\* claims on deposits too small to share out: the owner lowers the threshold,
\* the operator deposits one unit
RegisterDustMachine == RegisterMachineWith(MaxDustMachines, {"alice", ZeroAddress}, {0, 2})

ReportDustRevenue ==
    /\ totalSnapshots < MaxDustReports
    /\ \E sender \in Addresses, machineId \in RegisteredIds, value \in DustValues :
          Commit(reportRevenue(State, sender, machineId, value, TRUE))

NextDust ==
    \/ RegisterDustMachine
    \/ TokenTransfer
    \/ SetMinRevenueThreshold
    \/ ReportDustRevenue
    \/ ClaimRevenue
    \/ Pause
    \/ Unpause

SpecDust == Init /\ [][NextDust]_vars

\* the share tokens: machines with one or two shares, which change hands
\* before and after a deposit is shared out
RegisterShareMachine == RegisterMachineWith(MaxShareMachines, OperatorInputs, ShareInputs)

ReportShareRevenue == ReportRevenueWith(MaxShareReports)

NextShares ==
    \/ RegisterShareMachine
    \/ TokenTransfer
    \/ ReportShareRevenue
    \/ ClaimRevenue

SpecShares == Init /\ [][NextShares]_vars

\* several machines of one operator side by side, each with its shares,
\* deposits and claims
RegisterAsset == RegisterMachineWith(MaxAssets, {"alice"}, {2})

ReportAssetRevenue == ReportRevenueWith(MaxAssetReports)

\* the operator sells one of the two shares of a machine
AssetTransfer ==
    \E token \in RegisteredIds :
        /\ balanceOf(State, token, "alice") = 2
        /\ Commit(transfer(State, token, "alice", "bob", 1))

NextAssets ==
    \/ RegisterAsset
    \/ AssetTransfer
    \/ ReportAssetRevenue
    \/ ClaimRevenue

SpecAssets == Init /\ [][NextAssets]_vars

\* the vault: deposits, withdrawals, the owner's emergency withdrawal and pause
VaultDeposit ==
    \E sender \in Addresses, value \in DepositValues :
        /\ vault.deposits[sender] + value <= MaxVaultDeposit
        /\ VaultCommit(deposit(vault, sender, value))

VaultWithdraw ==
    \E sender \in Addresses, amount \in WithdrawAmounts :
        VaultCommit(withdraw(vault, sender, amount, TRUE))

VaultEmergencyWithdraw ==
    \E sender \in Addresses : VaultCommit(emergencyWithdraw(vault, sender, TRUE))

VaultPause == \E sender \in Addresses : VaultCommit(vaultPause(vault, sender))

VaultUnpause == \E sender \in Addresses : VaultCommit(vaultUnpause(vault, sender))

NextVault ==
    \/ VaultDeposit
    \/ VaultWithdraw
    \/ VaultEmergencyWithdraw
    \/ VaultPause
    \/ VaultUnpause

SpecVault == Init /\ [][NextVault]_vars

\* the capped token: its deployment with any initial supply and cap, then
\* mints, burns, changes of the cap, of the minters and pausers, and pauses
DeployRoleToken ==
    /\ ~roleToken.deployed
    /\ \E initialSupply \in SupplyInputs, maxSupply \in SupplyInputs :
          /\ roleToken' = mrtConstructor(Deployer, initialSupply, maxSupply)
          /\ UNCHANGED <<owner, paused, entered, machineIdCounter, machines, machineTokens,
                         operatorMachines, snapshotCounters, shareSnapshots,
                         balanceSnapshots, revenueClaimed, platformFeeBps,
                         minRevenueThreshold, contractBalance, tokenBalances, tokenSupply,
                         vault>>

RoleTokenMint ==
    \E sender \in Addresses, to \in OperatorInputs, amount \in MintAmounts :
        TokenCommit(mrtMint(roleToken, sender, to, amount))

RoleTokenBurn ==
    \E sender \in Addresses, from \in OperatorInputs, amount \in MintAmounts :
        TokenCommit(mrtBurn(roleToken, sender, from, amount))

RoleTokenBurnFromSelf ==
    \E sender \in Addresses, amount \in MintAmounts :
        TokenCommit(burnFromSelf(roleToken, sender, amount))

RoleTokenSetMaxSupply ==
    \E sender \in Addresses, newMaxSupply \in SupplyInputs :
        TokenCommit(setMaxSupply(roleToken, sender, newMaxSupply))

RoleTokenGrantRoles ==
    \E sender \in Addresses, account \in RoleAccounts, roles \in RoleLists :
        TokenCommit(grantRoles(roleToken, sender, account, roles))

RoleTokenRevokeRoles ==
    \E sender \in Addresses, account \in RoleAccounts, roles \in RoleLists :
        TokenCommit(revokeRoles(roleToken, sender, account, roles))

RoleTokenPause == \E sender \in Addresses : TokenCommit(mrtPause(roleToken, sender))

RoleTokenUnpause == \E sender \in Addresses : TokenCommit(mrtUnpause(roleToken, sender))

NextRoleToken ==
    \/ DeployRoleToken
    \/ RoleTokenMint
    \/ RoleTokenBurn
    \/ RoleTokenBurnFromSelf
    \/ RoleTokenSetMaxSupply
    \/ RoleTokenGrantRoles
    \/ RoleTokenRevokeRoles
    \/ RoleTokenPause
    \/ RoleTokenUnpause

SpecRoleToken == Init /\ [][NextRoleToken]_vars

\* ------------------------------------------------------------------ claims
\* the machines and snapshots that exist
Registered(m) == m \in RegisteredIds
Exists(m, s) == Registered(m) /\ s \in 1..snapshotCounters[m]

\* C1: for every machine and snapshot, the amount already paid out
\* (distributedAmount) never exceeds the distributable amount (revenueAmount).
C1_PaidOutWithinRevenue ==
    \A m \in MachineIds, s \in SnapshotIds :
        shareSnapshots[m][s].distributedAmount <= shareSnapshots[m][s].revenueAmount

\* C4: the share count a claim on snapshot s uses for a holder is the holder's
\* token balance at the moment s was created: it is that balance in the step that
\* creates s, and no later step (a share transfer, a deposit, a claim) changes it.
C4_SharesAtSnapshotTime ==
    [][\A m \in MachineIds, s \in SnapshotIds, a \in Addresses :
          shareSnapshots'[m][s].snapshotId = s /\ s # 0 =>
              userSharesOf(State', m, s, a) =
                  IF shareSnapshots[m][s].snapshotId = s
                  THEN userSharesOf(State, m, s, a)
                  ELSE tokenBalances[m][a]]_vars

\* the balance a claim resolves for a holder, and the holder's share of a snapshot
ResolvedBalance(m, s, a) ==
    IF balanceSnapshots[m][s][a] # 0 THEN balanceSnapshots[m][s][a] ELSE tokenBalances[m][a]
FloorShare(m, s, b) ==
    (shareSnapshots[m][s].revenueAmount * b) \div shareSnapshots[m][s].totalShares

\* C2 as stated: once (machine, snapshot, claimant) is marked claimed it stays
\* marked, and every later claimRevenue call for it fails with AlreadyClaimed
\* and changes nothing.
C2_SecondClaimAlreadyClaimed ==
    \A m \in MachineIds, s \in SnapshotIds, a \in Addresses, accepts \in BOOLEAN :
        revenueClaimed[m][s][a] =>
            LET r == claimRevenue(State, a, m, s, accepts)
            IN r.err = "AlreadyClaimed" /\ r.st = State /\ r.sent = <<>>

\* C2 as amended: a successful claim sets the marker, the marker is never
\* cleared, and every later claimRevenue call for the triple fails and changes
\* nothing: with AlreadyClaimed while the ledger is not paused, with EnforcedPause
\* while it is paused.
C2_AtMostOnce ==
    /\ [](\A m \in MachineIds, s \in SnapshotIds, a \in Addresses, accepts \in BOOLEAN :
            LET r == claimRevenue(State, a, m, s, accepts)
            IN /\ Succeeded(r) => r.st.revenueClaimed[m][s][a]
               /\ revenueClaimed[m][s][a] =>
                     /\ r.err = IF paused THEN "EnforcedPause" ELSE "AlreadyClaimed"
                     /\ r.st = State
                     /\ r.sent = <<>>)
    /\ [][\A m \in MachineIds, s \in SnapshotIds, a \in Addresses :
            revenueClaimed[m][s][a] => revenueClaimed'[m][s][a]]_vars

\* a claimed triple while the ledger is paused
C2_Witness ==
    paused /\ \E m \in MachineIds, s \in SnapshotIds, a \in Addresses : revenueClaimed[m][s][a]

\* C3: a successful claimRevenue by a claimant with resolved balance B on a
\* snapshot with total shares S and distributable amount D sends exactly
\* floor(D*B/S) to the claimant, in one transfer, and raises the snapshot's
\* distributedAmount (and lowers the ledger's ether) by exactly that amount.
C3_Proportionality ==
    \A m \in MachineIds, s \in SnapshotIds, a \in Addresses, accepts \in BOOLEAN :
        LET r == claimRevenue(State, a, m, s, accepts)
            share == FloorShare(m, s, ResolvedBalance(m, s, a))
        IN Succeeded(r) =>
             /\ r.sent = <<[to |-> a, value |-> share]>>
             /\ r.st.shareSnapshots[m][s].distributedAmount =
                    shareSnapshots[m][s].distributedAmount + share
             /\ r.st.contractBalance = contractBalance - share

\* a claim has been paid on a snapshot whose amount the claimant's shares do not divide
C3_Witness ==
    \E m \in MachineIds, s \in SnapshotIds, a \in Addresses :
        /\ revenueClaimed[m][s][a]
        /\ shareSnapshots[m][s].distributedAmount = FloorShare(m, s, balanceSnapshots[m][s][a])
        /\ (shareSnapshots[m][s].revenueAmount * balanceSnapshots[m][s][a])
              % shareSnapshots[m][s].totalShares # 0

\* the ids of a list, the ids of it a batch claim by a pays, and what it pays for them
IdsOf(q) == {q[i] : i \in 1..Len(q)}
Payable(m, q, a) ==
    {s \in IdsOf(q) : /\ ~revenueClaimed[m][s][a]
                      /\ shareSnapshots[m][s].revenueAmount # 0
                      /\ FloorShare(m, s, ResolvedBalance(m, s, a)) > 0}
RECURSIVE SumOfShares(_, _, _)
SumOfShares(m, S, a) ==
    IF S = {} THEN 0
    ELSE LET s == CHOOSE x \in S : TRUE
         IN FloorShare(m, s, ResolvedBalance(m, s, a)) + SumOfShares(m, S \ {s}, a)

\* C5: batchClaimRevenue on a registered machine never fails because of an id of
\* its list (the only failure is that of the one outbound transfer); it marks
\* exactly the ids that are not yet claimed by the caller, have a snapshot and
\* have a positive payout for the caller, leaves every other id untouched, and
\* sends the caller, in one transfer, the sum of floor(D*B/S) over the marked
\* ids, each id counted once however often it occurs in the list.
C5_BatchClaim ==
    \A m \in MachineIds, a \in Addresses, q \in BatchInputs, accepts \in BOOLEAN :
        Registered(m) =>
            LET r == batchClaimRevenue(State, a, m, q, accepts)
                paid == Payable(m, q, a)
                total == SumOfShares(m, paid, a)
            IN /\ r.err \in {"", "Batch revenue transfer failed"}
               /\ Succeeded(r) <=> (total = 0 \/ (accepts /\ contractBalance >= total))
               /\ ~Succeeded(r) => r.st = State /\ r.sent = <<>>
               /\ Succeeded(r) =>
                     /\ r.sent = IF total > 0 THEN <<[to |-> a, value |-> total]>> ELSE <<>>
                     /\ r.st.contractBalance = contractBalance - total
                     /\ \A s \in SnapshotIds :
                           /\ r.st.revenueClaimed[m][s][a] =
                                  (revenueClaimed[m][s][a] \/ s \in paid)
                           /\ r.st.shareSnapshots[m][s].distributedAmount =
                                  shareSnapshots[m][s].distributedAmount
                                  + (IF s \in paid THEN FloorShare(m, s, ResolvedBalance(m, s, a))
                                     ELSE 0)

\* a holder has been paid for two snapshots of one machine
C5_Witness ==
    \E m \in MachineIds, a \in Addresses :
        /\ revenueClaimed[m][1][a] /\ revenueClaimed[m][2][a]
        /\ shareSnapshots[m][1].distributedAmount > 0
        /\ shareSnapshots[m][2].distributedAmount > 0

\* the checks of reportRevenue on a registered machine, in the words of the code
IsOperator(m, a) == machines[m].operator = a
DepositLeavesNothing(r) == r.st = State /\ r.sent = <<>> /\ r.events = <<>>

\* C6 as stated: reportRevenue succeeds only for the machine's operator, on an
\* active machine, with an amount of at least minRevenueThreshold; otherwise it
\* fails with UnauthorizedOperator, MachineNotActive or InsufficientRevenue
\* respectively, and a failing call changes nothing.
C6_DepositErrors ==
    \A m \in MachineIds, a \in Addresses, value \in MsgValues, feeAccepted \in BOOLEAN :
        Registered(m) =>
            LET r == reportRevenue(State, a, m, value, feeAccepted)
            IN /\ Succeeded(r) =>
                     IsOperator(m, a) /\ machines[m].active /\ value >= minRevenueThreshold
               /\ ~IsOperator(m, a) => r.err = "UnauthorizedOperator"
               /\ IsOperator(m, a) /\ ~machines[m].active => r.err = "MachineNotActive"
               /\ IsOperator(m, a) /\ machines[m].active /\ value < minRevenueThreshold =>
                     r.err = "InsufficientRevenue"
               /\ ~Succeeded(r) => DepositLeavesNothing(r)

\* C6 as amended: the same while the ledger is not paused; while it is paused
\* the operator's call fails with EnforcedPause whatever the machine's status
\* and the amount (a caller who is not the operator still gets
\* UnauthorizedOperator); a call that names no registered machine fails with
\* MachineNotFound; a failing call changes nothing.
C6_DepositPreconditions ==
    \A m \in MachineIds, a \in Addresses, value \in MsgValues, feeAccepted \in BOOLEAN :
        LET r == reportRevenue(State, a, m, value, feeAccepted)
        IN /\ ~Registered(m) => r.err = "MachineNotFound"
           /\ Registered(m) =>
                 /\ Succeeded(r) =>
                       /\ IsOperator(m, a) /\ machines[m].active
                       /\ value >= minRevenueThreshold /\ ~paused
                 /\ ~IsOperator(m, a) => r.err = "UnauthorizedOperator"
                 /\ IsOperator(m, a) /\ paused => r.err = "EnforcedPause"
                 /\ IsOperator(m, a) /\ ~paused /\ ~machines[m].active =>
                       r.err = "MachineNotActive"
                 /\ IsOperator(m, a) /\ ~paused /\ machines[m].active
                       /\ value < minRevenueThreshold => r.err = "InsufficientRevenue"
           /\ ~Succeeded(r) => DepositLeavesNothing(r)

\* the ledger is paused and a machine that has taken a deposit is inactive
C6_Witness ==
    /\ paused
    /\ \E m \in MachineIds : Exists(m, 1) /\ ~machines[m].active

\* C7: a successful reportRevenue of amount A sends floor(A * platformFeeBps /
\* 10000) to the owner (nothing when that is zero) and stores exactly one new
\* snapshot: revenueAmount A less the fee, totalShares the token's totalSupply,
\* distributedAmount 0, completed false; the ledger keeps A less the fee.
C7_FeeAndSnapshot ==
    \A m \in MachineIds, a \in Addresses, value \in MsgValues, feeAccepted \in BOOLEAN :
        LET r == reportRevenue(State, a, m, value, feeAccepted)
            fee == (value * platformFeeBps) \div BpsDenominator
            k == snapshotCounters[m] + 1
        IN Succeeded(r) /\ k \in SnapshotIds =>
             /\ r.sent = IF fee > 0 THEN <<[to |-> owner, value |-> fee]>> ELSE <<>>
             /\ r.st.shareSnapshots[m][k] =
                    [snapshotId |-> k, totalShares |-> tokenSupply[machineTokens[m]],
                     revenueAmount |-> value - fee, distributedAmount |-> 0,
                     completed |-> FALSE]
             /\ fee + r.st.shareSnapshots[m][k].revenueAmount = value
             /\ r.st.contractBalance = contractBalance + value - fee
             /\ r.st.machines[m].totalRevenue = machines[m].totalRevenue + value
             /\ \A m2 \in MachineIds, s \in SnapshotIds :
                    <<m2, s>> # <<m, k>> => r.st.shareSnapshots[m2][s] = shareSnapshots[m2][s]

\* a deposit whose fee was rounded down has been stored
C7_Witness ==
    \E m \in MachineIds, s \in SnapshotIds :
        /\ Exists(m, s)
        /\ shareSnapshots[m][s].revenueAmount = 147
        /\ shareSnapshots[m][s].totalShares = tokenSupply[machineTokens[m]]

\* C8: snapshot ids are per machine. The snapshots of a machine are those with
\* ids 1..snapshotCounters[machine], each stored under its own id; a successful
\* reportRevenue raises the counter of its machine by one and no other counter,
\* a failing one raises none; every step raises at most one counter, by one, and
\* leaves the id, total shares and amount of every stored snapshot as they were.
C8_SnapshotIdsPerMachine ==
    /\ [](/\ \A m \in MachineIds, s \in SnapshotIds :
                IF Exists(m, s) THEN shareSnapshots[m][s].snapshotId = s
                ELSE shareSnapshots[m][s] = NoSnapshot
          /\ \A m \in MachineIds, a \in Addresses, value \in MsgValues, feeAccepted \in BOOLEAN :
                LET r == reportRevenue(State, a, m, value, feeAccepted)
                IN r.st.snapshotCounters =
                      IF Succeeded(r)
                      THEN [snapshotCounters EXCEPT ![m] = @ + 1]
                      ELSE snapshotCounters)
    /\ [][/\ \A m \in MachineIds :
                snapshotCounters'[m] # snapshotCounters[m] =>
                    /\ snapshotCounters'[m] = snapshotCounters[m] + 1
                    /\ shareSnapshots[m][snapshotCounters'[m]] = NoSnapshot
                    /\ shareSnapshots'[m][snapshotCounters'[m]].distributedAmount = 0
                    /\ \A m2 \in MachineIds \ {m} : snapshotCounters'[m2] = snapshotCounters[m2]
          /\ \A m \in MachineIds, s \in SnapshotIds :
                Exists(m, s) =>
                    /\ shareSnapshots'[m][s].snapshotId = s
                    /\ shareSnapshots'[m][s].totalShares = shareSnapshots[m][s].totalShares
                    /\ shareSnapshots'[m][s].revenueAmount = shareSnapshots[m][s].revenueAmount]_vars

\* two machines have taken deposits: one has snapshots 1 and 2, or each has snapshot 1
C8_Witness ==
    \E m \in MachineIds, m2 \in MachineIds :
        /\ Exists(m, 1)
        /\ \/ Exists(m, 2)
           \/ m2 # m /\ Exists(m2, 1)

\* C9: a successful registerMachine(operator, totalShares) returns the next
\* machine id, stores the machine under it with that operator and share count,
\* no revenue and active, and creates a token no other machine has, whose whole
\* supply totalShares is held by the operator; it touches no other machine. Ids
\* only grow, one at a time, and a registered machine is never removed.
C9_Register ==
    /\ [](\A sender \in Addresses, operator \in OperatorInputs, totalShares \in ShareInputs :
            LET r == registerMachine(State, sender, operator, totalShares)
                id == machineIdCounter + 1
                token == r.st.machineTokens[id]
            IN Succeeded(r) /\ id \in MachineIds =>
                 /\ r.ret = id /\ r.st.machineIdCounter = id
                 /\ machines[id] = NoMachine
                 /\ r.st.machines[id] =
                        [operator |-> operator, metadataURI |-> RegisteredMetadataURI,
                         totalShares |-> totalShares, totalRevenue |-> 0, active |-> TRUE]
                 /\ \A m \in RegisteredIds : machineTokens[m] # token
                 /\ tokenSupply[token] = 0
                 /\ r.st.tokenSupply[token] = totalShares
                 /\ r.st.tokenBalances[token] =
                        [a \in Addresses |-> IF a = operator THEN totalShares ELSE 0]
                 /\ \A m \in MachineIds \ {id} :
                        /\ r.st.machines[m] = machines[m]
                        /\ r.st.machineTokens[m] = machineTokens[m]
                        /\ r.st.tokenBalances[m] = tokenBalances[m])
    /\ [][/\ machineIdCounter' \in {machineIdCounter, machineIdCounter + 1}
          /\ \A m \in RegisteredIds :
                /\ machineExists(State', m)
                /\ machines'[m].totalShares = machines[m].totalShares
                /\ machineTokens'[m] = machineTokens[m]]_vars

\* two machines are registered, for different operators, each holding its token's supply
C9_Witness ==
    /\ machineIdCounter = 2
    /\ machines[1].operator # machines[2].operator
    /\ machineTokens[1] # machineTokens[2]
    /\ \A m \in {1, 2} :
          tokenBalances[machineTokens[m]][machines[m].operator] = machines[m].totalShares

\* C10 as stated: registerMachine fails with ZeroAddress for the null operator
\* and with the share-count error (InvalidMachineId in the code) for zero
\* shares; a failing call changes nothing; the operator of a registered machine
\* is never null.
C10_RegisterErrors ==
    /\ \A sender \in Addresses, operator \in OperatorInputs, totalShares \in ShareInputs :
          LET r == registerMachine(State, sender, operator, totalShares)
          IN /\ operator = ZeroAddress => r.err = "ZeroAddress"
             /\ operator # ZeroAddress /\ totalShares = 0 => r.err = "InvalidMachineId"
             /\ ~Succeeded(r) => r.st = State /\ r.sent = <<>> /\ r.events = <<>>
    /\ \A m \in RegisteredIds : machines[m].operator # ZeroAddress

\* C10 as amended: the same while the ledger is not paused (the null operator is
\* reported before the zero share count); while it is paused every
\* registerMachine fails with EnforcedPause; a failing call changes nothing; the
\* operator of a registered machine is never null.
C10_RegisterPreconditions ==
    /\ \A sender \in Addresses, operator \in OperatorInputs, totalShares \in ShareInputs :
          LET r == registerMachine(State, sender, operator, totalShares)
          IN /\ paused => r.err = "EnforcedPause"
             /\ ~paused /\ operator = ZeroAddress => r.err = "ZeroAddress"
             /\ ~paused /\ operator # ZeroAddress /\ totalShares = 0 =>
                   r.err = "InvalidMachineId"
             /\ ~paused /\ operator # ZeroAddress /\ totalShares # 0 => Succeeded(r)
             /\ ~Succeeded(r) => r.st = State /\ r.sent = <<>> /\ r.events = <<>>
    /\ \A m \in RegisteredIds : machines[m].operator # ZeroAddress

\* the ledger is paused and a machine has changed operator
C10_Witness ==
    /\ paused
    /\ \E m \in RegisteredIds :
          tokenBalances[machineTokens[m]][machines[m].operator] = 0

\* the outcomes of the three operator functions for one caller and one machine
OperatorCalls(m, a) ==
    {updateMachineMetadata(State, a, m, uri) : uri \in MetadataInputs}
    \cup {setMachineStatus(State, a, m, active) : active \in BOOLEAN}
    \cup {transferOperator(State, a, m, newOperator) : newOperator \in OperatorInputs}

\* C11: updateMachineMetadata, setMachineStatus and transferOperator succeed
\* only for the machine's current operator, paused or not; for any other
\* caller, the owner and the shareholders included, they fail with
\* UnauthorizedOperator and leave the storage as it was; on an id that names no
\* machine they fail with MachineNotFound.
C11_OperatorOnly ==
    \A m \in MachineIds, a \in Addresses :
        \A r \in OperatorCalls(m, a) :
            /\ ~Registered(m) => r.err = "MachineNotFound"
            /\ Registered(m) /\ machines[m].operator # a => r.err = "UnauthorizedOperator"
            /\ Succeeded(r) => Registered(m) /\ machines[m].operator = a
            /\ ~Succeeded(r) => r.st = State /\ r.events = <<>>
            /\ Registered(m) /\ machines[m].operator = a =>
                  r.err \in {"", "ZeroAddress"}

\* the operator of a machine is neither its only shareholder nor the owner, and
\* has changed the machine's metadata and status
C11_Witness ==
    \E m \in RegisteredIds :
        /\ tokenBalances[machineTokens[m]][machines[m].operator] = 0
        /\ machines[m].operator # owner
        /\ machines[m].metadataURI # RegisteredMetadataURI
        /\ ~machines[m].active

\* the operator-only functions, called by b on machine m in storage st
OperatorGuarded(st, m, b) ==
    {updateMachineMetadata(st, b, m, uri) : uri \in MetadataInputs}
    \cup {setMachineStatus(st, b, m, active) : active \in BOOLEAN}
    \cup {transferOperator(st, b, m, newOperator) : newOperator \in OperatorInputs}
    \cup {reportRevenue(st, b, m, value, TRUE) : value \in MsgValues}

\* C12: transferOperator by the operator with a non-null newOperator changes the
\* operator field and nothing else, after which exactly newOperator passes the
\* operator check of reportRevenue, updateMachineMetadata, setMachineStatus and
\* transferOperator; with the null address it fails with ZeroAddress; whoever
\* calls it, and whatever the outcome, token balances, snapshots, cached
\* balances and claimed markers stay as they were.
C12_TransferOperator ==
    \A m \in RegisteredIds, a \in Addresses, newOperator \in OperatorInputs :
        LET r == transferOperator(State, a, m, newOperator)
        IN /\ r.st.tokenBalances = tokenBalances /\ r.st.tokenSupply = tokenSupply
           /\ r.st.shareSnapshots = shareSnapshots /\ r.st.snapshotCounters = snapshotCounters
           /\ r.st.balanceSnapshots = balanceSnapshots /\ r.st.revenueClaimed = revenueClaimed
           /\ r.st.contractBalance = contractBalance /\ r.sent = <<>>
           /\ machines[m].operator = a =>
                 IF newOperator = ZeroAddress
                 THEN r.err = "ZeroAddress" /\ r.st = State
                 ELSE /\ Succeeded(r)
                      /\ r.st = [State EXCEPT !.machines[m].operator = newOperator]
                      /\ \A b \in Addresses : \A n \in OperatorGuarded(r.st, m, b) :
                            (n.err = "UnauthorizedOperator") <=> (b # newOperator)

\* a machine with a snapshot whose operator is not the one who registered it
C12_Witness ==
    \E m \in RegisteredIds :
        /\ Exists(m, 1)
        /\ tokenBalances[machineTokens[m]][machines[m].operator] = 0
        /\ balanceSnapshots[m][1][machines[m].operator] = 0

\* the storage with the status of machine m set to active
WithStatus(st, m, active) == [st EXCEPT !.machines[m].active = active]

\* claimRevenue and batchClaimRevenue do not read the status of the machine:
\* with the status flipped they give the same outcome, status aside (single
\* claims for every id, batch claims for the lists of the machine's snapshot ids)
ClaimsIgnoreStatus(m) ==
    LET flipped == WithStatus(State, m, ~machines[m].active)
    IN /\ \A a \in Addresses, s \in SnapshotIds, accepts \in BOOLEAN :
             LET r == claimRevenue(State, a, m, s, accepts)
                 f == claimRevenue(flipped, a, m, s, accepts)
             IN /\ f.err = r.err /\ f.sent = r.sent /\ f.events = r.events
                /\ f.st = WithStatus(r.st, m, ~machines[m].active)
       /\ \A a \in Addresses, q \in SeqsUpTo(1..snapshotCounters[m], MaxBatch),
                accepts \in BOOLEAN :
             LET r == batchClaimRevenue(State, a, m, q, accepts)
                 f == batchClaimRevenue(flipped, a, m, q, accepts)
             IN /\ f.err = r.err /\ f.sent = r.sent /\ f.events = r.events
                /\ f.st = WithStatus(r.st, m, ~machines[m].active)

\* C13 as stated: once the operator has set a machine inactive, every
\* reportRevenue on it fails with MachineNotActive, until the operator sets it
\* active again; claimRevenue and batchClaimRevenue behave as on an active machine.
C13_InactiveBlocksDeposits ==
    \A m \in RegisteredIds :
        LET off == setMachineStatus(State, machines[m].operator, m, FALSE)
        IN /\ Succeeded(off) /\ ~off.st.machines[m].active
           /\ \A a \in Addresses, value \in MsgValues, feeAccepted \in BOOLEAN :
                 /\ reportRevenue(off.st, a, m, value, feeAccepted).err = "MachineNotActive"
                 /\ ~machines[m].active =>
                       reportRevenue(State, a, m, value, feeAccepted).err = "MachineNotActive"
           /\ ClaimsIgnoreStatus(m)

\* C13 as amended: once the operator has set a machine inactive, every
\* reportRevenue on it fails and changes nothing (with MachineNotActive for the
\* operator while the ledger is not paused, EnforcedPause for the operator while
\* it is paused, UnauthorizedOperator for anyone else), until the operator sets
\* it active again, after which the operator's deposits succeed under their
\* other preconditions; no step changes the status of a machine together with
\* anything else; claimRevenue and batchClaimRevenue behave as on an active
\* machine.
C13_InactiveBlocksDepositsOnly ==
  /\ [][\A m \in RegisteredIds :
          machines'[m].active # machines[m].active =>
              State' = WithStatus(State, m, machines'[m].active)]_vars
  /\ [](\A m \in RegisteredIds :
        LET operator == machines[m].operator
            off == setMachineStatus(State, operator, m, FALSE)
            on == setMachineStatus(off.st, operator, m, TRUE)
            Blocked(st) ==
                \A a \in Addresses, value \in MsgValues, feeAccepted \in BOOLEAN :
                    LET r == reportRevenue(st, a, m, value, feeAccepted)
                    IN /\ r.st = st /\ r.sent = <<>>
                       /\ r.err = IF a # operator THEN "UnauthorizedOperator"
                                  ELSE IF st.paused THEN "EnforcedPause"
                                  ELSE "MachineNotActive"
        IN /\ Succeeded(off) /\ off.st = WithStatus(State, m, FALSE)
           /\ Blocked(off.st)
           /\ ~machines[m].active => Blocked(State)
           /\ Succeeded(on) /\ on.st = WithStatus(State, m, TRUE)
           /\ \A value \in MsgValues :
                 ~paused /\ value >= minRevenueThreshold =>
                     Succeeded(reportRevenue(on.st, operator, m, value, TRUE))
           /\ ClaimsIgnoreStatus(m))

\* a claim has been paid on a machine that is inactive, while the ledger is paused
C13_Witness ==
    \E m \in RegisteredIds, a \in Addresses :
        ~machines[m].active /\ Exists(m, 1) /\ revenueClaimed[m][1][a] /\ paused

\* C14: claims never expire. If a holder's claim on a snapshot would succeed,
\* and a step leaves that claim unclaimed and the holder's resolved balance for
\* the snapshot as it was, then the claim still succeeds after the step.
C14_ClaimsNeverExpire ==
    [][\A m \in MachineIds, s \in SnapshotIds, a \in Addresses :
          /\ Succeeded(claimRevenue(State, a, m, s, TRUE))
          /\ ~revenueClaimed'[m][s][a]
          /\ userSharesOf(State', m, s, a) = userSharesOf(State, m, s, a)
          => Succeeded(claimRevenue(State', a, m, s, TRUE))]_vars

\* a call that aborted: no storage written, no ether sent, no event
Aborted(r, err) == r.err = err /\ r.st = State /\ r.sent = <<>> /\ r.events = <<>>

\* C15: whenever reportRevenue, claimRevenue or batchClaimRevenue would make an
\* outbound transfer, the same call with a recipient that rejects the transfer
\* aborts as a whole: no snapshot and no snapshot id, no claimed marker, no
\* change of distributedAmount, completed, cached balances or total revenue,
\* and no ether moved; so does a claim the ledger has not the ether to pay.
C15_TransferFailureAborts ==
    \A m \in MachineIds, a \in Addresses :
        /\ \A value \in MsgValues :
              LET ok == reportRevenue(State, a, m, value, TRUE)
                  ko == reportRevenue(State, a, m, value, FALSE)
              IN IF Succeeded(ok) /\ ok.sent # <<>>
                 THEN Aborted(ko, "Fee transfer failed")
                 ELSE ko = ok
        /\ \A s \in SnapshotIds :
              LET ok == claimRevenue(State, a, m, s, TRUE)
                  ko == claimRevenue(State, a, m, s, FALSE)
              IN /\ Succeeded(ok) => Aborted(ko, "Revenue transfer failed")
                 /\ ~Succeeded(ok) => ko = ok /\ Aborted(ok, ok.err)
        /\ \A q \in BatchInputs :
              LET ok == batchClaimRevenue(State, a, m, q, TRUE)
                  ko == batchClaimRevenue(State, a, m, q, FALSE)
              IN /\ Succeeded(ok) /\ ok.sent # <<>> =>
                       Aborted(ko, "Batch revenue transfer failed")
                 /\ Succeeded(ok) /\ ok.sent = <<>> => ko = ok
                 /\ ~Succeeded(ok) => ko = ok /\ Aborted(ok, ok.err)

\* a claim is due that the ledger has not the ether to pay, next to one it can pay
C15_Witness ==
    \E m \in MachineIds, s \in SnapshotIds, a \in Addresses, b \in Addresses, s2 \in SnapshotIds :
        /\ claimRevenue(State, a, m, s, TRUE).err = "Revenue transfer failed"
        /\ Succeeded(claimRevenue(State, b, m, s2, TRUE))

\* the deposits and claims anyone can attempt from inside an outbound transfer
NestedCalls(st) ==
    UNION {
        {reportRevenue(st, b, m, value, TRUE) : value \in MsgValues}
        \cup {claimRevenue(st, b, m, s, TRUE) : s \in SnapshotIds}
        \cup {batchClaimRevenue(st, b, m, q, TRUE) : q \in SeqsUpTo(1..st.snapshotCounters[m], MaxBatch)}
        : b \in Addresses, m \in MachineIds }

\* every nested deposit or claim is turned away, by the guard unless an earlier
\* modifier already did, and writes nothing
NoReentry(st) ==
    \A n \in NestedCalls(st) :
        /\ n.err \in {"MachineNotFound", "UnauthorizedOperator", "ReentrancyGuardReentrantCall"}
        /\ n.st = st /\ n.sent = <<>>

\* C16: while the fee transfer of a reportRevenue, or the payout of a
\* claimRevenue or batchClaimRevenue, is in progress, every reportRevenue,
\* claimRevenue and batchClaimRevenue call made from inside the transfer, by
\* anyone and on any machine, fails and changes nothing.
C16_NoReentrancy ==
    \A m \in MachineIds, a \in Addresses :
        /\ \A value \in MsgValues :
              LET r == reportRevenue(State, a, m, value, TRUE)
              IN Succeeded(r) /\ r.sent # <<>> => NoReentry(duringFeeTransfer(State, m, value))
        /\ \A s \in SnapshotIds :
              LET r == claimRevenue(State, a, m, s, TRUE)
              IN Succeeded(r) => NoReentry(duringPayout(r))
        /\ \A q \in SeqsUpTo(1..snapshotCounters[m], MaxBatch) :
              LET r == batchClaimRevenue(State, a, m, q, TRUE)
              IN Succeeded(r) /\ r.sent # <<>> => NoReentry(duringPayout(r))

\* a holder has been paid for one snapshot and has another one to claim, which
\* the holder could try to claim from inside a payout
C16_Witness ==
    \E m \in MachineIds, a \in Addresses, s \in SnapshotIds, s2 \in SnapshotIds :
        /\ revenueClaimed[m][s][a]
        /\ s2 # s
        /\ Succeeded(claimRevenue(State, a, m, s2, TRUE))

\* the failure claimRevenue owes a caller whose claim cannot be paid, before any
\* pause is looked at: no snapshot (the code reports it as InvalidMachineId, or
\* MachineNotFound when the machine itself is unknown), no shares, zero payout
ClaimRefusal(m, s, a) ==
    IF ~Registered(m) THEN "MachineNotFound"
    ELSE IF shareSnapshots[m][s].revenueAmount = 0 THEN "InvalidMachineId"
    ELSE IF revenueClaimed[m][s][a] THEN "AlreadyClaimed"
    ELSE IF ResolvedBalance(m, s, a) = 0 THEN "NoSharesOwned"
    ELSE IF FloorShare(m, s, ResolvedBalance(m, s, a)) = 0 THEN "InsufficientRevenue"
    ELSE ""

\* C17 as stated: claimRevenue fails, changing nothing, with the not-found error
\* when the snapshot does not exist, with NoSharesOwned when the caller's
\* resolved balance is zero, and with InsufficientRevenue when floor(D*B/S) is
\* zero; a successful claim pays a positive amount; a failed claim caches no balance.
C17_ClaimErrors ==
    \A m \in MachineIds, s \in SnapshotIds, a \in Addresses, accepts \in BOOLEAN :
        LET r == claimRevenue(State, a, m, s, accepts)
        IN /\ ClaimRefusal(m, s, a) \in {"MachineNotFound", "InvalidMachineId",
                                         "NoSharesOwned", "InsufficientRevenue"}
                 => r.err = ClaimRefusal(m, s, a)
           /\ ~Succeeded(r) => r.st = State /\ r.sent = <<>>
           /\ Succeeded(r) => Len(r.sent) = 1 /\ r.sent[1].value > 0

\* C17 as amended: the same while the ledger is not paused; while it is paused
\* a claim on a registered machine fails with EnforcedPause, whatever the
\* snapshot and the caller's balance; in every case a failed claim changes
\* nothing and caches no balance, and a successful one pays a positive amount.
C17_ClaimRefusals ==
    \A m \in MachineIds, s \in SnapshotIds, a \in Addresses, accepts \in BOOLEAN :
        LET r == claimRevenue(State, a, m, s, accepts)
        IN /\ ClaimRefusal(m, s, a) \in {"MachineNotFound", "InvalidMachineId",
                                         "NoSharesOwned", "InsufficientRevenue"}
                 => r.err = IF paused /\ Registered(m) THEN "EnforcedPause"
                            ELSE ClaimRefusal(m, s, a)
           /\ ~Succeeded(r) =>
                 /\ r.st = State /\ r.sent = <<>>
                 /\ r.st.balanceSnapshots = balanceSnapshots
           /\ Succeeded(r) =>
                 /\ ~paused /\ ClaimRefusal(m, s, a) = ""
                 /\ Len(r.sent) = 1 /\ r.sent[1].value > 0

\* the ledger is paused while a holder's share of a snapshot rounds down to
\* zero and another address holds no shares
C17_Witness ==
    /\ paused
    /\ \E m \in RegisteredIds, s \in SnapshotIds, a \in Addresses, b \in Addresses :
          /\ ClaimRefusal(m, s, a) = "InsufficientRevenue"
          /\ ClaimRefusal(m, s, b) = "NoSharesOwned"

RECURSIVE SumSeq(_)
SumSeq(q) == IF q = <<>> THEN 0 ELSE Head(q) + SumSeq(Tail(q))

\* the snapshots of machine m that user a has not claimed and that pay a something
ClaimableIds(m, a) ==
    {s \in 1..snapshotCounters[m] :
        /\ ~revenueClaimed[m][s][a]
        /\ shareSnapshots[m][s].revenueAmount # 0
        /\ FloorShare(m, s, ResolvedBalance(m, s, a)) > 0}

\* C18: getClaimableRevenue writes nothing (no claimed marker, no cached
\* balance, nothing else), a second call with the same arguments returns the
\* same triple, totalClaimable is the sum of amounts, and snapshotIds lists, in
\* increasing order, the unclaimed snapshots with a non-zero payout, amounts
\* holding the payout floor(D*B/S) of each.
C18_ClaimableIsPureRead ==
    \A m \in MachineIds, a \in Addresses :
        LET r == getClaimableRevenue(State, m, a)
            ids == r.ret.snapshotIds
            amounts == r.ret.amounts
        IN /\ Succeeded(r) /\ r.st = State /\ r.sent = <<>> /\ r.events = <<>>
           /\ getClaimableRevenue(r.st, m, a) = r
           /\ r.ret.totalClaimable = SumSeq(amounts)
           /\ Len(ids) = Len(amounts)
           /\ \A i \in 1..Len(ids), j \in 1..Len(ids) : i < j => ids[i] < ids[j]
           /\ {ids[i] : i \in 1..Len(ids)} = ClaimableIds(m, a)
           /\ \A i \in 1..Len(ids) :
                 amounts[i] = FloorShare(m, ids[i], ResolvedBalance(m, ids[i], a))

\* a holder has claimed one snapshot and has two shares of another to claim;
\* another holder, with no balance cached, has both to claim
C18_Witness ==
    \E m \in MachineIds, a \in Addresses, b \in Addresses :
        /\ revenueClaimed[m][1][a] /\ ClaimableIds(m, a) = {2}
        /\ ClaimableIds(m, b) = {1, 2}
        /\ balanceSnapshots[m][1][b] = 0

\* C19: platformFeeBps starts at 250 and never exceeds 1000. setPlatformFee and
\* setMinRevenueThreshold fail for everyone but the owner; the owner's
\* setPlatformFee fails with InvalidFee above 1000 and otherwise writes the fee
\* and nothing else; a failing call changes nothing. A step that changes the fee
\* or the threshold changes no snapshot, no balance and no machine.
C19_FeeBounded ==
    /\ platformFeeBps = DefaultPlatformFeeBps
    /\ [](/\ platformFeeBps <= MaxPlatformFeeBps
          /\ \A a \in Addresses, newFeeBps \in FeeInputs :
                LET r == setPlatformFee(State, a, newFeeBps)
                IN /\ a # owner => r.err = "OwnableUnauthorizedAccount"
                   /\ a = owner /\ newFeeBps > MaxPlatformFeeBps => r.err = "InvalidFee"
                   /\ a = owner /\ newFeeBps <= MaxPlatformFeeBps =>
                         /\ Succeeded(r)
                         /\ r.st = [State EXCEPT !.platformFeeBps = newFeeBps]
                   /\ ~Succeeded(r) => r.st = State
          /\ \A a \in Addresses, newThreshold \in ThresholdInputs :
                LET r == setMinRevenueThreshold(State, a, newThreshold)
                IN IF a = owner
                   THEN /\ Succeeded(r)
                        /\ r.st = [State EXCEPT !.minRevenueThreshold = newThreshold]
                   ELSE r.err = "OwnableUnauthorizedAccount" /\ r.st = State)
    /\ [][platformFeeBps' # platformFeeBps \/ minRevenueThreshold' # minRevenueThreshold =>
             State' = [State EXCEPT !.platformFeeBps = platformFeeBps',
                                    !.minRevenueThreshold = minRevenueThreshold']]_vars

\* the fee is at its maximum and a snapshot made under the default fee is as it was
C19_Witness ==
    /\ platformFeeBps = MaxPlatformFeeBps
    /\ \E m \in MachineIds, s \in SnapshotIds :
          /\ Exists(m, s)
          /\ machines[m].totalRevenue = 150
          /\ shareSnapshots[m][s].revenueAmount = 147

\* a call that failed in storage st and wrote nothing
Refused(r, st) == ~Succeeded(r) /\ r.st = st /\ r.sent = <<>> /\ r.events = <<>>

\* every registerMachine, reportRevenue, claimRevenue and batchClaimRevenue call
\* is refused in storage st (batch lists over the machine's snapshot ids)
PausableCallsRefused(st) ==
    \A a \in Addresses :
        /\ \A operator \in OperatorInputs, totalShares \in ShareInputs :
              Refused(registerMachine(st, a, operator, totalShares), st)
        /\ \A m \in MachineIds :
              /\ \A value \in MsgValues : Refused(reportRevenue(st, a, m, value, TRUE), st)
              /\ \A s \in SnapshotIds : Refused(claimRevenue(st, a, m, s, TRUE), st)
              /\ \A q \in SeqsUpTo(1..st.snapshotCounters[m], MaxBatch) :
                    Refused(batchClaimRevenue(st, a, m, q, TRUE), st)

\* C20: pause and unpause fail for everyone but the owner, and the owner's write
\* the paused flag and nothing else. While the ledger is paused every
\* registerMachine, reportRevenue, claimRevenue and batchClaimRevenue call fails
\* and changes nothing. Once the owner has unpaused, they succeed under their
\* normal preconditions: a registration with an operator and shares, a deposit
\* of at least the threshold by the operator of an active machine, a claim on an
\* unclaimed snapshot with a positive payout that the ledger holds.
C20_EmergencyStop ==
    /\ \A a \in Addresses :
          LET p == pause(State, a)
              u == unpause(State, a)
          IN /\ a # owner =>
                   /\ p.err = "OwnableUnauthorizedAccount" /\ p.st = State
                   /\ u.err = "OwnableUnauthorizedAccount" /\ u.st = State
             /\ a = owner =>
                   /\ Succeeded(p) <=> ~paused
                   /\ Succeeded(u) <=> paused
                   /\ p.st = [State EXCEPT !.paused = TRUE]
                   /\ u.st = [State EXCEPT !.paused = FALSE]
    /\ paused =>
          /\ PausableCallsRefused(State)
          /\ LET resumed == unpause(State, owner).st
             IN /\ \A a \in Addresses, operator \in Addresses, totalShares \in ShareInputs \ {0} :
                      Succeeded(registerMachine(resumed, a, operator, totalShares))
                /\ \A m \in RegisteredIds, value \in MsgValues :
                      machines[m].active /\ value >= minRevenueThreshold =>
                          Succeeded(reportRevenue(resumed, machines[m].operator, m, value, TRUE))
                /\ \A m \in RegisteredIds, s \in SnapshotIds, a \in Addresses :
                      /\ ClaimRefusal(m, s, a) = ""
                      /\ contractBalance >= FloorShare(m, s, ResolvedBalance(m, s, a))
                      => /\ Succeeded(claimRevenue(resumed, a, m, s, TRUE))
                         /\ Succeeded(batchClaimRevenue(resumed, a, m, <<s>>, TRUE))

\* the ledger is paused while a holder has a snapshot to claim that the ledger
\* can pay and that another holder has claimed, on an active machine
C20_Witness ==
    /\ paused
    /\ \E m \in RegisteredIds, s \in SnapshotIds, a \in Addresses, b \in Addresses :
          /\ ClaimRefusal(m, s, a) = ""
          /\ contractBalance >= FloorShare(m, s, ResolvedBalance(m, s, a))
          /\ revenueClaimed[m][s][b]
          /\ machines[m].active

\* C21: in every reachable state the balances of every share token add up to
\* its totalSupply. A transfer of amount a to the null address fails with
\* ERC20InvalidReceiver, one by a sender who holds less than a with
\* ERC20InsufficientBalance, and a failed transfer changes no balance and no
\* supply; any other transfer succeeds, takes exactly a from the sender and
\* gives exactly a to the recipient (nothing moves when they are the same), and
\* leaves every other balance, the other tokens and the supplies as they were.
C21_SupplyConservation ==
    /\ \A token \in MachineIds :
          SumOver(tokenBalances[token], Addresses) = tokenSupply[token]
    /\ \A token \in RegisteredIds, sender \in Addresses, to \in OperatorInputs,
             amount \in TransferAttempts :
          LET r == transfer(State, token, sender, to, amount)
              held == tokenBalances[token]
          IN /\ r.st.tokenSupply = tokenSupply
             /\ IF to = ZeroAddress \/ held[sender] < amount
                THEN /\ r.err = IF to = ZeroAddress THEN "ERC20InvalidReceiver"
                                ELSE "ERC20InsufficientBalance"
                     /\ r.st.tokenBalances = tokenBalances
                ELSE /\ Succeeded(r)
                     /\ r.st.tokenBalances =
                          [tokenBalances EXCEPT ![token] =
                             [a \in Addresses |->
                                IF sender = to THEN held[a]
                                ELSE IF a = sender THEN held[a] - amount
                                ELSE IF a = to THEN held[a] + amount
                                ELSE held[a]]]

\* the shares of a machine have been split between two holders, neither of
\* whom can transfer two
C21_Witness ==
    \E token \in RegisteredIds :
        /\ tokenBalances[token]["alice"] = 1
        /\ tokenBalances[token]["bob"] = 1
        /\ tokenSupply[token] = 2

\* the list of all snapshot ids of machine m, in order
AllSnapshotIds(m) == [i \in 1..snapshotCounters[m] |-> i]

\* C22: mint and burn of a share token fail for every caller but the ledger and
\* then change nothing; the supply of a token changes only in the step that
\* registers its machine, from 0 to the machine's totalShares, and no deposit,
\* claim, batch claim or transfer changes it; so in every reachable state the
\* token's totalSupply is the totalShares recorded for its machine, which no step
\* changes, and every snapshot of the machine records that same total.
C22_TotalSharesFixed ==
    /\ [](/\ \A m \in RegisteredIds :
                /\ tokenSupply[machineTokens[m]] = machines[m].totalShares
                /\ \A s \in SnapshotIds :
                      Exists(m, s) => shareSnapshots[m][s].totalShares = machines[m].totalShares
          /\ \A token \in RegisteredIds, a \in Addresses, b \in Addresses, amount \in TransferAttempts :
                LET minted == mintCall(State, token, a, b, amount)
                    burnt == burnCall(State, token, a, b, amount)
                IN /\ minted.err = "OwnableUnauthorizedAccount" /\ minted.st = State
                   /\ burnt.err = "OwnableUnauthorizedAccount" /\ burnt.st = State
                   /\ Succeeded(mintCall(State, token, Ledger, b, amount))
                   /\ Succeeded(burnCall(State, token, Ledger, b, amount))
                         <=> tokenBalances[token][b] >= amount
          /\ \A m \in RegisteredIds, a \in Addresses :
                /\ \A value \in MsgValues :
                      reportRevenue(State, a, m, value, TRUE).st.tokenSupply = tokenSupply
                /\ \A s \in SnapshotIds :
                      claimRevenue(State, a, m, s, TRUE).st.tokenSupply = tokenSupply
                /\ batchClaimRevenue(State, a, m, AllSnapshotIds(m), TRUE).st.tokenSupply
                      = tokenSupply)
    /\ [][\A m \in MachineIds :
            /\ Registered(m) => machines'[m].totalShares = machines[m].totalShares
            /\ tokenSupply'[m] # tokenSupply[m] =>
                  /\ machineIdCounter' = m /\ machineIdCounter = m - 1
                  /\ tokenSupply[m] = 0
                  /\ tokenSupply'[m] = machines'[m].totalShares]_vars

\* a machine has a snapshot taken after one of its two shares changed hands
C22_Witness ==
    \E m \in RegisteredIds :
        /\ Exists(m, 1)
        /\ balanceSnapshots[m][1][machines[m].operator] = 1
        /\ tokenSupply[machineTokens[m]] = 2
        /\ shareSnapshots[m][1].totalShares = 2

\* C23: in every reachable state, for every existing (machine, snapshot), the
\* completed flag is true if and only if distributedAmount >= revenueAmount,
\* right after the snapshot is created too, whatever threshold the owner has set.
C23_CompletedIffPaidOut ==
    \A m \in MachineIds, s \in SnapshotIds :
        Exists(m, s) =>
            (shareSnapshots[m][s].completed <=>
                shareSnapshots[m][s].distributedAmount >= shareSnapshots[m][s].revenueAmount)

\* storage st records the cumulative revenue of every machine as it is now,
\* but for machine m, where it is higher by amount
RevenueRaised(st, m, amount) ==
    \A m2 \in RegisteredIds :
        st.machines[m2].totalRevenue =
            machines[m2].totalRevenue + (IF m2 = m THEN amount ELSE 0)

\* C24: the totalRevenue of a machine is the sum of the gross amounts (msg.value,
\* before the fee) of the successful deposits on it. It is 0 before any deposit;
\* a successful reportRevenue of amount A raises it by exactly A for its machine
\* and leaves it for every other machine; a failed deposit, a claim, a batch
\* claim, a share transfer and a change of metadata or operator leave it as it
\* is; and every step (registrations, changes of status, fee and threshold,
\* pause and unpause among them) either leaves it or is a deposit that stores
\* one snapshot and adds the snapshot's amount plus the fee taken. It never
\* decreases.
C24_CumulativeRevenue ==
    /\ \A m \in MachineIds : machines[m].totalRevenue = 0
    /\ [](LET kept(r) == RevenueRaised(r.st, 0, 0)
          IN \A m \in RegisteredIds, a \in Addresses :
                /\ \A value \in MsgValues, feeAccepted \in BOOLEAN :
                      LET r == reportRevenue(State, a, m, value, feeAccepted)
                      IN RevenueRaised(r.st, m, IF Succeeded(r) THEN value ELSE 0)
                /\ \A s \in SnapshotIds : kept(claimRevenue(State, a, m, s, TRUE))
                /\ kept(batchClaimRevenue(State, a, m, AllSnapshotIds(m), TRUE))
                /\ \A uri \in MetadataInputs : kept(updateMachineMetadata(State, a, m, uri))
                /\ \A b \in OperatorInputs : kept(transferOperator(State, a, m, b))
                /\ \A b \in Holders : kept(transfer(State, m, a, b, 1)))
    /\ [][\A m \in MachineIds :
            LET k == snapshotCounters'[m]
            IN /\ machines'[m].totalRevenue >= machines[m].totalRevenue
               /\ (machines'[m].totalRevenue # machines[m].totalRevenue
                      \/ k # snapshotCounters[m]) =>
                     /\ k = snapshotCounters[m] + 1
                     /\ \E value \in MsgValues :
                           /\ machines'[m].totalRevenue = machines[m].totalRevenue + value
                           /\ shareSnapshots'[m][k].revenueAmount
                                 + platformFeeOf(value, platformFeeBps) = value]_vars

\* a machine has taken two deposits, of 150 and of 10, with the fee at its maximum
C24_Witness ==
    \E m \in RegisteredIds :
        /\ Exists(m, 2)
        /\ machines[m].totalRevenue = 160
        /\ shareSnapshots[m][1].revenueAmount + shareSnapshots[m][2].revenueAmount = 144

\* C25: SecureVault.withdraw(amount) by a user whose recorded deposit is smaller
\* than amount fails, paused or not, and changes nothing; a failed withdraw
\* changes nothing whatever its cause; a successful withdraw lowers the caller's
\* recorded deposit, totalDeposits and the vault's ether by exactly amount, pays
\* the caller exactly amount in one transfer and leaves the other users'
\* deposits; no recorded deposit is ever negative.
C25_WithdrawWithinDeposit ==
    /\ \A a \in Addresses : vault.deposits[a] >= 0
    /\ \A a \in Addresses, amount \in WithdrawAmounts, accepts \in BOOLEAN :
          LET r == withdraw(vault, a, amount, accepts)
          IN /\ vault.deposits[a] < amount => ~Succeeded(r)
             /\ ~Succeeded(r) => r.st = vault /\ r.sent = <<>> /\ r.events = <<>>
             /\ Succeeded(r) =>
                   /\ r.st = [vault EXCEPT !.deposits[a] = @ - amount,
                                           !.totalDeposits = @ - amount,
                                           !.balance = @ - amount]
                   /\ r.sent = <<[to |-> a, value |-> amount]>>
                   /\ r.st.deposits[a] >= 0 /\ r.st.totalDeposits >= 0 /\ r.st.balance >= 0

\* a user can withdraw the one unit deposited and no more, next to a user whose
\* recorded deposit the vault no longer holds
C25_Witness ==
    \E a \in Addresses, b \in Addresses :
        /\ vault.deposits[a] = 1
        /\ Succeeded(withdraw(vault, a, 1, TRUE))
        /\ withdraw(vault, a, 2, TRUE).err = "Insufficient balance"
        /\ withdraw(vault, b, 2, TRUE).err = "Contract insufficient funds"

\* C26: SecureVault.emergencyWithdraw fails for every caller but the owner and
\* then changes nothing; the owner's call succeeds, paused or not, unless the
\* owner rejects the ether; when it succeeds the vault holds no ether,
\* totalDeposits is 0, and the owner was sent, in one transfer, all the ether
\* the vault held before the call.
C26_EmergencyWithdraw ==
    \A a \in Addresses, accepts \in BOOLEAN :
        LET r == emergencyWithdraw(vault, a, accepts)
        IN /\ a # vault.owner => r.err = "OwnableUnauthorizedAccount"
           /\ ~Succeeded(r) => r.st = vault /\ r.sent = <<>> /\ r.events = <<>>
           /\ Succeeded(r) <=> (a = vault.owner /\ accepts)
           /\ Succeeded(r) =>
                 /\ r.st.balance = 0 /\ r.st.totalDeposits = 0
                 /\ r.sent = <<[to |-> vault.owner, value |-> vault.balance]>>
                 /\ r.st = [vault EXCEPT !.balance = 0, !.totalDeposits = 0]

\* the owner has emptied the vault while it was paused: users' deposits are
\* still recorded, the vault holds nothing
C26_Witness ==
    /\ vault.paused
    /\ vault.balance = 0 /\ vault.totalDeposits = 0
    /\ \E a \in Addresses \ {vault.owner} : vault.deposits[a] = 2

\* C27: MultiRoleToken.mint succeeds only when the caller holds MINTER_ROLE, the
\* token is not paused and totalSupply + amount <= maxSupply (and then it does
\* succeed, crediting the recipient and the supply with amount, unless the
\* recipient is the null address); in every other case it fails: without the
\* role with AccessControlUnauthorizedAccount, else when paused with
\* EnforcedPause, else with 'Exceeds max supply'; a failed mint changes no
\* balance, not the supply, and nothing else.
C27_MintGuards ==
    roleToken.deployed =>
        \A a \in Addresses, to \in OperatorInputs, amount \in MintAmounts :
            LET r == mrtMint(roleToken, a, to, amount)
                minter == a \in roleToken.roles[MINTER_ROLE]
                room == roleToken.totalSupply + amount <= roleToken.maxSupply
            IN /\ Succeeded(r) <=>
                     (minter /\ ~roleToken.paused /\ room /\ to # ZeroAddress)
               /\ ~minter => r.err = "AccessControlUnauthorizedAccount"
               /\ minter /\ roleToken.paused => r.err = "EnforcedPause"
               /\ minter /\ ~roleToken.paused /\ ~room => r.err = "Exceeds max supply"
               /\ ~Succeeded(r) => r.st = roleToken /\ r.events = <<>>
               /\ Succeeded(r) =>
                     r.st = [roleToken EXCEPT !.balances[to] = @ + amount,
                                              !.totalSupply = @ + amount]

\* the deployer is no longer a minter, another account is, the supply has
\* reached the cap through a mint to a third account, and the token is paused
C27_Witness ==
    /\ roleToken.deployed /\ roleToken.paused
    /\ Deployer \notin roleToken.roles[MINTER_ROLE]
    /\ "alice" \in roleToken.roles[MINTER_ROLE]
    /\ roleToken.balances["bob"] > 0
    /\ roleToken.totalSupply = roleToken.maxSupply

C29_CachedBalanceSetOnce ==
    /\ [](\A m \in RegisteredIds :
            \A s \in 1..snapshotCounters[m], a \in Addresses :
               LET cached == balanceSnapshots[m][s][a]
                   Kept(r) == r.st.balanceSnapshots[m][s][a] = cached
               IN cached # 0 =>
                    /\ \A b \in Addresses :
                          /\ \A s2 \in 1..snapshotCounters[m] :
                                Kept(claimRevenue(State, b, m, s2, TRUE))
                          /\ Kept(batchClaimRevenue(State, b, m, AllSnapshotIds(m), TRUE))
                          /\ \A value \in MsgValues :
                                Kept(reportRevenue(State, b, m, value, TRUE))
                          /\ \A c \in Addresses :
                                /\ Kept(transferOperator(State, b, m, c))
                                /\ \A amount \in TransferAmounts :
                                      Kept(transfer(State, machineTokens[m], b, c, amount))
                    /\ userSharesOf(State, m, s, a) = cached
                    /\ LET r == claimRevenue(State, a, m, s, TRUE)
                       IN Succeeded(r) =>
                            /\ r.sent[1].value = FloorShare(m, s, cached)
                            /\ r.st.shareSnapshots[m][s].distributedAmount =
                                 shareSnapshots[m][s].distributedAmount + FloorShare(m, s, cached)
                    /\ LET r == batchClaimRevenue(State, a, m, <<s>>, TRUE)
                       IN Succeeded(r) /\ ~revenueClaimed[m][s][a] =>
                            r.st.shareSnapshots[m][s].distributedAmount =
                              shareSnapshots[m][s].distributedAmount + FloorShare(m, s, cached))
    /\ [][\A m \in MachineIds, s \in SnapshotIds, a \in Addresses :
            balanceSnapshots[m][s][a] # 0 =>
                balanceSnapshots'[m][s][a] = balanceSnapshots[m][s][a]]_vars

\* a holder whose cached balance for a snapshot differs from the holder's token
\* balance claims, and is paid by the cached balance
C29_Witness ==
    \E m \in RegisteredIds, a \in Addresses :
        \E s \in 1..snapshotCounters[m] :
            LET r == claimRevenue(State, a, m, s, TRUE)
            IN /\ balanceSnapshots[m][s][a] # 0
               /\ balanceSnapshots[m][s][a] # tokenBalances[machineTokens[m]][a]
               /\ Succeeded(r)
               /\ r.sent[1].value = FloorShare(m, s, balanceSnapshots[m][s][a])
               /\ r.sent[1].value # FloorShare(m, s, tokenBalances[machineTokens[m]][a])

\* claimRevenue(m, id) called by a for each id of q in order from position i,
\* the calls that fail ignored: acc = [st, paid]
RECURSIVE SequentialClaims(_, _, _, _, _)
SequentialClaims(acc, a, m, q, i) ==
    IF i > Len(q) THEN acc
    ELSE LET r == claimRevenue(acc.st, a, m, q[i], TRUE)
         IN SequentialClaims(IF Succeeded(r)
                             THEN [st |-> r.st, paid |-> acc.paid + r.sent[1].value]
                             ELSE acc,
                             a, m, q, i + 1)

\* what a call has paid to its caller
PaidBy(r) == IF Len(r.sent) = 0 THEN 0 ELSE r.sent[1].value

\* C30: from any state, batchClaimRevenue(m, ids) leaves the same claimed
\* markers, distributed amounts, completed flags and cached balances, and pays
\* the caller the same total, as claimRevenue(m, id) called for each id of the
\* list in order with the failing calls ignored.
C30_BatchEqualsSequential ==
    \A m \in RegisteredIds, a \in Addresses :
        \A q \in SeqsUpTo(1..snapshotCounters[m], MaxBatch) :
            LET batch == batchClaimRevenue(State, a, m, q, TRUE)
                each == SequentialClaims([st |-> State, paid |-> 0], a, m, q, 1)
            IN /\ batch.st.revenueClaimed = each.st.revenueClaimed
               /\ batch.st.shareSnapshots = each.st.shareSnapshots
               /\ batch.st.balanceSnapshots = each.st.balanceSnapshots
               /\ PaidBy(batch) = each.paid

\* what has been distributed of all the snapshots of machine m in storage st
DistributedOf(st, m) ==
    SumOver([s \in SnapshotIds |-> st.shareSnapshots[m][s].distributedAmount], SnapshotIds)

\* storage st2 keeps the snapshot (m, s) of the current state as created: id,
\* total shares and amount; distributedAmount no smaller; completed not reset
SnapshotKept(st2, m, s) ==
    LET old == shareSnapshots[m][s]
        new == st2.shareSnapshots[m][s]
    IN /\ new.snapshotId = old.snapshotId
       /\ new.totalShares = old.totalShares
       /\ new.revenueAmount = old.revenueAmount
       /\ new.distributedAmount >= old.distributedAmount
       /\ old.completed => new.completed

\* C31: a snapshot is immutable except through claims. Once created its id,
\* total shares and revenueAmount never change, its distributedAmount never
\* decreases and its completed flag never returns to false; distributedAmount
\* changes only in a step that marks the snapshot claimed for some holder, by
\* exactly what leaves the ledger in that step; no step of a deposit or of a
\* token transfer changes a snapshot that exists. The same is checked of
\* batchClaimRevenue, transferOperator and setMachineStatus called by anyone.
C31_SnapshotImmutable ==
    /\ [](\A m \in RegisteredIds, a \in Addresses :
            /\ LET r == batchClaimRevenue(State, a, m, AllSnapshotIds(m), TRUE)
               IN /\ \A s \in 1..snapshotCounters[m] : SnapshotKept(r.st, m, s)
                  /\ DistributedOf(r.st, m) = DistributedOf(State, m) + PaidBy(r)
            /\ \A b \in Addresses :
                  transferOperator(State, a, m, b).st.shareSnapshots = shareSnapshots
            /\ \A active \in BOOLEAN :
                  setMachineStatus(State, a, m, active).st.shareSnapshots = shareSnapshots)
    /\ [][\A m \in MachineIds :
            /\ \A s \in 1..snapshotCounters[m] :
                  /\ shareSnapshots'[m][s].snapshotId = shareSnapshots[m][s].snapshotId
                  /\ shareSnapshots'[m][s].totalShares = shareSnapshots[m][s].totalShares
                  /\ shareSnapshots'[m][s].revenueAmount = shareSnapshots[m][s].revenueAmount
                  /\ shareSnapshots'[m][s].distributedAmount >= shareSnapshots[m][s].distributedAmount
                  /\ shareSnapshots[m][s].completed => shareSnapshots'[m][s].completed
                  /\ shareSnapshots'[m][s].distributedAmount # shareSnapshots[m][s].distributedAmount =>
                        /\ \E a \in Addresses :
                              ~revenueClaimed[m][s][a] /\ revenueClaimed'[m][s][a]
                        /\ contractBalance' = contractBalance
                              - (shareSnapshots'[m][s].distributedAmount
                                   - shareSnapshots[m][s].distributedAmount)
            /\ snapshotCounters'[m] >= snapshotCounters[m]]_vars

\* a snapshot of which a part has been paid out, another deposit made after it
C31_Witness ==
    \E m \in RegisteredIds :
        /\ snapshotCounters[m] = 2
        /\ shareSnapshots[m][1].distributedAmount > 0
        /\ shareSnapshots[m][1].distributedAmount < shareSnapshots[m][1].revenueAmount
        /\ shareSnapshots[m][1].snapshotId = 1
        /\ \E a \in Addresses : revenueClaimed[m][1][a]

\* what the snapshots of all machines still owe: revenueAmount less
\* distributedAmount, of the snapshots not yet paid out in full
Outstanding ==
    SumOver([m \in MachineIds |->
               SumOver([s \in SnapshotIds |->
                          IF shareSnapshots[m][s].distributedAmount < shareSnapshots[m][s].revenueAmount
                          THEN shareSnapshots[m][s].revenueAmount - shareSnapshots[m][s].distributedAmount
                          ELSE 0],
                       SnapshotIds)],
            MachineIds)

\* C32: solvency. In every reachable state the ether the ledger holds is at
\* least what its snapshots still owe, so that the money deposited for one
\* snapshot never pays the claims against another.
C32_Solvency == contractBalance >= Outstanding

\* the snapshots of machine m that storage st2 marks claimed for a and the
\* current state does not
NewlyClaimed(st2, m, a) ==
    {s \in SnapshotIds : st2.revenueClaimed[m][s][a] /\ ~revenueClaimed[m][s][a]}

\* C33: the preview agrees with the claim. While the ledger is not paused, if
\* getClaimableRevenue(m, a) returns (total, ids, amounts), then
\* batchClaimRevenue(m, ids) called by a next marks exactly the snapshots of
\* ids claimed and pays exactly total, and getClaimableRevenue(m, a) after it
\* returns total 0 and no ids.
C33_PreviewAgreesWithBatch ==
    \A m \in RegisteredIds, a \in Addresses :
        ~paused =>
            LET preview == getClaimableRevenue(State, m, a).ret
                batch == batchClaimRevenue(State, a, m, preview.snapshotIds, TRUE)
                after == getClaimableRevenue(batch.st, m, a).ret
            IN /\ NewlyClaimed(batch.st, m, a) = IdsOf(preview.snapshotIds)
               /\ PaidBy(batch) = preview.totalClaimable
               /\ after.totalClaimable = 0
               /\ after.snapshotIds = <<>>

\* the amounts of the RevenueClaimed events of a call that carry snapshot id s
RECURSIVE ClaimedAmountIn(_, _, _)
ClaimedAmountIn(events, s, i) ==
    IF i > Len(events) THEN 0
    ELSE (IF events[i].name = "RevenueClaimed" /\ events[i].snapshotId = s
          THEN events[i].amount ELSE 0)
         + ClaimedAmountIn(events, s, i + 1)

\* the events of call r on machine m are faithful: per snapshot their amounts
\* add up to what the call has added to distributedAmount, and each names a
\* snapshot the call has marked claimed for the user it names
FaithfulEvents(r, m) ==
    /\ \A s \in SnapshotIds :
          ClaimedAmountIn(r.events, s, 1) =
              r.st.shareSnapshots[m][s].distributedAmount - shareSnapshots[m][s].distributedAmount
    /\ \A i \in 1..Len(r.events) :
          r.events[i].name = "RevenueClaimed" =>
              /\ r.events[i].machineId = m
              /\ r.events[i].snapshotId \in NewlyClaimed(r.st, m, r.events[i].user)

\* C34: the RevenueClaimed events are a faithful audit trail. Every call of
\* claimRevenue and of batchClaimRevenue, whatever ids its list holds and in
\* whatever order, emits events whose amounts for each snapshot id add up to
\* what the call adds to that snapshot's distributedAmount, and that name only
\* snapshots the user claimed in the call; hence in every reachable state the
\* events of a snapshot add up to its distributedAmount.
C34_ClaimEventsFaithful ==
    \A m \in RegisteredIds, a \in Addresses :
        /\ \A s \in SnapshotIds : FaithfulEvents(claimRevenue(State, a, m, s, TRUE), m)
        /\ \A q \in SeqsUpTo(1..snapshotCounters[m], MaxBatch) :
              FaithfulEvents(batchClaimRevenue(State, a, m, q, TRUE), m)

\* C35: the operator index is consistent. In every reachable state
\* getOperatorMachines(a) returns exactly the ids of the machines whose
\* operator is a, each once.
C35_OperatorIndex ==
    \A a \in Addresses :
        LET ids == getOperatorMachines(State, a)
        IN /\ IdsOf(ids) = {m \in RegisteredIds : machines[m].operator = a}
           /\ Cardinality(IdsOf(ids)) = Len(ids)

\* storage st2 holds for every machine but A what the current state holds: the
\* machine record, the snapshot counter, the snapshots, the claimed markers,
\* the cached balances and the token's balances
OthersKept(st2, A) ==
    /\ st2.machines = [machines EXCEPT ![A] = st2.machines[A]]
    /\ st2.snapshotCounters = [snapshotCounters EXCEPT ![A] = st2.snapshotCounters[A]]
    /\ st2.shareSnapshots = [shareSnapshots EXCEPT ![A] = st2.shareSnapshots[A]]
    /\ st2.revenueClaimed = [revenueClaimed EXCEPT ![A] = st2.revenueClaimed[A]]
    /\ st2.balanceSnapshots = [balanceSnapshots EXCEPT ![A] = st2.balanceSnapshots[A]]
    /\ st2.tokenBalances = [tokenBalances EXCEPT ![machineTokens[A]] =
                                                  st2.tokenBalances[machineTokens[A]]]

\* C36: the machines are isolated from each other. reportRevenue,
\* claimRevenue, batchClaimRevenue, updateMachineMetadata, setMachineStatus and
\* transferOperator called for machine A by anyone, and every transfer of A's
\* token, leave the record, the snapshot counter, the snapshots, the claimed
\* markers, the cached balances and the token balances of every other machine
\* unchanged; every step changes those of one machine at most.
C36_CrossAssetIsolation ==
    /\ [](\A A \in RegisteredIds, a \in Addresses :
            /\ \A value \in MsgValues : OthersKept(reportRevenue(State, a, A, value, TRUE).st, A)
            /\ \A s \in SnapshotIds : OthersKept(claimRevenue(State, a, A, s, TRUE).st, A)
            /\ \A q \in SeqsUpTo(1..snapshotCounters[A], MaxBatch) :
                  OthersKept(batchClaimRevenue(State, a, A, q, TRUE).st, A)
            /\ \A uri \in MetadataInputs : OthersKept(updateMachineMetadata(State, a, A, uri).st, A)
            /\ \A active \in BOOLEAN : OthersKept(setMachineStatus(State, a, A, active).st, A)
            /\ \A b \in Addresses :
                  /\ OthersKept(transferOperator(State, a, A, b).st, A)
                  /\ \A amount \in TransferAmounts :
                        OthersKept(transfer(State, machineTokens[A], a, b, amount).st, A))
    /\ [][\E A \in MachineIds : \A B \in MachineIds \ {A} :
            /\ machines'[B] = machines[B]
            /\ snapshotCounters'[B] = snapshotCounters[B]
            /\ shareSnapshots'[B] = shareSnapshots[B]
            /\ revenueClaimed'[B] = revenueClaimed[B]
            /\ balanceSnapshots'[B] = balanceSnapshots[B]
            /\ tokenBalances'[machineTokens[B]] = tokenBalances[machineTokens[B]]]_vars

\* a holder has claimed the revenue of one machine and still holds shares of
\* another machine whose snapshot nobody has claimed
C36_Witness ==
    \E A \in RegisteredIds, B \in RegisteredIds, a \in Addresses :
        /\ A # B
        /\ Exists(A, 1) /\ revenueClaimed[A][1][a]
        /\ Exists(B, 1) /\ shareSnapshots[B][1].distributedAmount = 0
        /\ tokenBalances[machineTokens[B]][a] > 0
        /\ tokenBalances[machineTokens[B]] # tokenBalances[machineTokens[A]]

\* C37: the accounting of the vault. In every reachable state totalDeposits is
\* the sum of the users' recorded deposits and is the ether the vault holds.
C37_VaultAccounting ==
    /\ vault.totalDeposits = SumOver(vault.deposits, Addresses)
    /\ vault.totalDeposits = vault.balance

\* C38: the supply cap. In every reachable state of a deployed token, whatever
\* (initialSupply, maxSupply) it was constructed with, totalSupply <= maxSupply,
\* and getRemainingMintable succeeds and returns maxSupply - totalSupply.
C38_SupplyCap ==
    roleToken.deployed =>
        /\ roleToken.totalSupply <= roleToken.maxSupply
        /\ Succeeded(getRemainingMintable(roleToken))
        /\ getRemainingMintable(roleToken).ret = roleToken.maxSupply - roleToken.totalSupply

====
